---- MODULE Spec2Model ----
(***************************************************************************)
(* Model of the MST string table container of mst06 (src/src/Mst.cpp):     *)
(* loadMST / loadXML / saveMST / saveXML and the string escape functions.  *)
(*                                                                         *)
(* Strings are sequences of character codes (bytes for UTF-8 / Shift-JIS,  *)
(* 16-bit code units for UTF-16).  Files are sequences of bytes.           *)
(***************************************************************************)
EXTENDS Integers, Sequences, FiniteSets, TLC

VARIABLES
    m_version,          \* Mst::m_version (character code)
    m_isBigEndian,      \* Mst::m_isBigEndian
    m_name,             \* Mst::m_name (UTF-8)
    m_vStrTbl,          \* Mst::m_vStrTbl: sequence of [first |-> name, second |-> text]
    m_mapPlaceholder,   \* Mst::m_mapPlaceholder: index -> placeholder name
    m_vStrLkup,         \* Mst::m_vStrLkup: name -> index
    m_vDiffOffTbl,      \* Mst::m_vDiffOffTbl (Mst.hpp:248-252): raw differential offset table
    hostIsBigEndian,    \* SYS_BYTEORDER == SYS_BIG_ENDIAN of the build
    ret,                \* return value of the last operation
    fault,              \* "none", or how the process died ("assert", "ub")
    op,                 \* the last operation and its input
    vecErrs,            \* *pVecErrs after the last loadXML (fresh vector per call)
    outMst,             \* what the last saveMST wrote (NoFile when nothing was written)
    outXml,             \* what the last saveXML wrote (NoFile when nothing was written)
    src,                \* the last load that reached the object: [kind, ret, bytes]
    snap,               \* the object as it was when outXml / outMst was written
    nOps,               \* number of operations performed
    escIn, escMid, escOut, escPc,   \* escape / unescape applied to one string
    mst_data,           \* mst06.cpp: the file the legacy decoder read
    pOffsetTbl,         \* mst06.cpp: pOffsetTbl, as an index into the differential offset table
    pTbl,               \* mst06.cpp: pTbl, as an offset from the WTXT header
    vMsgOffsets,        \* mst06.cpp: vMsgOffsets
    decWrap,            \* whether addresses are 32 bits wide and pTbl + offset_diff wraps
    decSteps,           \* history: one record for each difference the loop decoded
    idxRead,            \* history: the indices of vMsgOffsets read after the loop
    vStrTbl,            \* mst06.cpp:216: vStrTbl, the entries the decoder built
    msgAt,              \* history: the value of i at each push_back to vStrTbl
    decPc               \* where the legacy decoder is: "off", "loop", "decoded", "exit"

objVars == <<m_version, m_isBigEndian, m_name, m_vStrTbl, m_mapPlaceholder, m_vStrLkup,
             m_vDiffOffTbl>>
escVars == <<escIn, escMid, escOut, escPc>>
envVars == <<hostIsBigEndian, ret, fault, op, vecErrs, outMst, outXml, src, snap, nOps>>
decVars == <<mst_data, pOffsetTbl, pTbl, vMsgOffsets, decWrap, decSteps, idxRead, vStrTbl,
             msgAt, decPc>>
vars == <<objVars, envVars, escVars, decVars>>

----------------------------------------------------------------------------
(* Bounds of the model. *)

MaxStrLen == 4      \* longest string given to escape / unescape
MaxOps == 4         \* longest sequence of operations on one Mst object
MaxRecs == 2        \* most records in the record array of an input MST file
MaxWfRecs == 3      \* most records of a well-formed input MST file
MaxDoffCodes == 3   \* most codes in the differential offset table given to the decoder
MaxMsgs == 3        \* most message elements in an input XML document

----------------------------------------------------------------------------
(* Character codes and error codes. *)

NUL == 0
LF == 10            \* '\n'
FF == 12            \* '\f'
SPACE == 32
BACKSLASH == 92     \* '\\'
Ch_n == 110
Ch_f == 102
Ch_x == 120
Ch_0 == 48
Ch_2 == 50
Ch_A == 65
Ch_B == 66
Ch_L == 76
Ch_1 == 49

EINVAL == 22
EIO == 5
ENODATA == 61
ENOENT == 2

\* Maps as functions: std::unordered_map / std::map.
EmptyMap == <<>>
MapInsert(m, k, v) == IF k \in DOMAIN m THEN m
                      ELSE [x \in (DOMAIN m) \cup {k} |-> IF x = k THEN v ELSE m[x]]
MapErase(m, k) == [x \in (DOMAIN m) \ {k} |-> m[x]]

SubSeqFrom(s, i) == SubSeq(s, i, Len(s))

\* m_vStrLkup.insert(std::make_pair(name, idx)): an existing key is kept.
LkupInsert(lkup, name, idx) == MapInsert(lkup, name, idx)

----------------------------------------------------------------------------
(* String escape functions. *)

\* isxdigit() on the ASCII range.
IsXDigit(c) == (c >= 48 /\ c <= 57) \/ (c >= 65 /\ c <= 70) \/ (c >= 97 /\ c <= 102)

\* Value of one hexadecimal digit, as strtoul(buf, nullptr, 16) reads it.
HexVal(c) == IF c >= 48 /\ c <= 57 THEN c - 48
             ELSE IF c >= 65 /\ c <= 70 THEN c - 55
             ELSE c - 87

\* A loop that escapes newline and form feed but copies a backslash as it is.
RECURSIVE EscapeCharsSingleBackslash(_, _)
EscapeCharsSingleBackslash(str, i) ==
    IF i > Len(str) THEN <<>>
    ELSE (CASE str[i] = LF -> <<BACKSLASH, Ch_n>>
            [] str[i] = FF -> <<BACKSLASH, Ch_f>>
            [] OTHER -> <<str[i]>>) \o EscapeCharsSingleBackslash(str, i + 1)

\* The loop of Mst::escape: the escaped characters of str from position i on.
RECURSIVE EscapeChars(_, _)
EscapeChars(str, i) ==
    IF i > Len(str) THEN <<>>
    ELSE (CASE str[i] = BACKSLASH -> <<BACKSLASH, BACKSLASH>>
            [] str[i] = LF -> <<BACKSLASH, Ch_n>>
            [] str[i] = FF -> <<BACKSLASH, Ch_f>>
            [] OTHER -> <<str[i]>>) \o EscapeChars(str, i + 1)

\* isSpaceOnly at the end of Mst::escape's loop.
IsSpaceOnly(str) == \A i \in 1..Len(str) : str[i] = SPACE

Escape(str) ==
    LET r == EscapeChars(str, 1) IN
    IF r # <<>> /\ IsSpaceOnly(str)
    THEN <<BACKSLASH, Ch_x, Ch_2, Ch_0>> \o SubSeqFrom(r, 2)
    ELSE r

\* p[k] of a C string: the character at 1-based position i, NUL past the end.
CharAt(str, i) == IF i >= 1 /\ i <= Len(str) THEN str[i] ELSE NUL

\* Mst::unescape(const string&) from position i on. The C loop runs over
\* str.c_str() and stops at the first NUL.
RECURSIVE Unescape8(_, _)
Unescape8(str, i) ==
    LET c == CharAt(str, i)
        d == CharAt(str, i + 1) IN
    IF c = NUL THEN <<>>
    ELSE IF c # BACKSLASH THEN <<c>> \o Unescape8(str, i + 1)
    ELSE IF d = NUL THEN <<BACKSLASH>>
    ELSE IF d = BACKSLASH THEN <<BACKSLASH>> \o Unescape8(str, i + 2)
    ELSE IF d = Ch_n THEN <<LF>> \o Unescape8(str, i + 2)
    ELSE IF d = Ch_f THEN <<FF>> \o Unescape8(str, i + 2)
    ELSE IF d = Ch_x THEN
        IF ~IsXDigit(CharAt(str, i + 2)) \/ ~IsXDigit(CharAt(str, i + 3))
        THEN Unescape8(str, i + 2)
        ELSE <<(16 * HexVal(CharAt(str, i + 2)) + HexVal(CharAt(str, i + 3))) % 256>>
                \o Unescape8(str, i + 4)
    ELSE <<BACKSLASH, d>> \o Unescape8(str, i + 2)

Unescape(str) == Unescape8(str, 1)

\* Mst::unescape(const u16string&): the same over 16-bit code units; a hex
\* digit must also be below 0x0100.
RECURSIVE Unescape16At(_, _)
Unescape16At(str, i) ==
    LET c == CharAt(str, i)
        d == CharAt(str, i + 1)
        h1 == CharAt(str, i + 2)
        h2 == CharAt(str, i + 3) IN
    IF c = NUL THEN <<>>
    ELSE IF c # BACKSLASH THEN <<c>> \o Unescape16At(str, i + 1)
    ELSE IF d = NUL THEN <<BACKSLASH>>
    ELSE IF d = BACKSLASH THEN <<BACKSLASH>> \o Unescape16At(str, i + 2)
    ELSE IF d = Ch_n THEN <<LF>> \o Unescape16At(str, i + 2)
    ELSE IF d = Ch_f THEN <<FF>> \o Unescape16At(str, i + 2)
    ELSE IF d = Ch_x THEN
        IF h1 >= 256 \/ ~IsXDigit(h1) \/ h2 >= 256 \/ ~IsXDigit(h2)
        THEN Unescape16At(str, i + 2)
        ELSE <<16 * HexVal(h1) + HexVal(h2)>> \o Unescape16At(str, i + 4)
    ELSE <<BACKSLASH, d>> \o Unescape16At(str, i + 2)

Unescape16(str) == Unescape16At(str, 1)

----------------------------------------------------------------------------
(* Text transcoding (TextFuncs): code points below 0x10000 that are not  *)
(* surrogates; code page 932 over its single-byte ranges.                *)

\* UTF-8 bytes of one code point.
Utf8Of(cp) ==
    IF cp < 128 THEN <<cp>>
    ELSE IF cp < 2048 THEN <<192 + (cp \div 64), 128 + (cp % 64)>>
    ELSE <<224 + (cp \div 4096), 128 + ((cp \div 64) % 64), 128 + (cp % 64)>>

RECURSIVE Utf8Encode(_, _)
Utf8Encode(cps, i) ==
    IF i > Len(cps) THEN <<>> ELSE Utf8Of(cps[i]) \o Utf8Encode(cps, i + 1)

\* Code points of a well-formed UTF-8 byte string.
RECURSIVE Utf8Decode(_, _)
Utf8Decode(b, i) ==
    IF i > Len(b) THEN <<>>
    ELSE IF b[i] < 128 THEN <<b[i]>> \o Utf8Decode(b, i + 1)
    ELSE IF b[i] >= 192 /\ b[i] < 224
         THEN <<(b[i] - 192) * 64 + (b[i + 1] - 128)>> \o Utf8Decode(b, i + 2)
    ELSE <<(b[i] - 224) * 4096 + (b[i + 1] - 128) * 64 + (b[i + 2] - 128)>>
            \o Utf8Decode(b, i + 3)

\* utf16_to_utf8(): empty when the string is empty or starts with a NUL unit.
utf16_to_utf8(wcs) ==
    IF wcs = <<>> \/ wcs[1] = NUL THEN <<>> ELSE Utf8Encode(wcs, 1)

\* utf8_to_utf16(str, len): rp_iconv() returns nullptr for len <= 0.
utf8_to_utf16(str) ==
    IF str = <<>> THEN <<>> ELSE Utf8Decode(str, 1)

\* Code page 932, single-byte ranges: ASCII, and halfwidth katakana
\* 0xA1..0xDF <-> U+FF61..U+FF9F.
Cp932ToCodePoint(b) == IF b < 128 THEN b ELSE 65377 + (b - 161)
Cp932Convertible(cp) == cp < 128 \/ (cp >= 65377 /\ cp <= 65439)
CodePointToCp932(cp) == IF cp < 128 THEN cp ELSE 161 + (cp - 65377)

\* cpN_to_utf8(932, str, len).
cpN_to_utf8(str) ==
    IF str = <<>> THEN <<>>
    ELSE Utf8Encode([i \in 1..Len(str) |-> Cp932ToCodePoint(str[i])], 1)

\* utf8_to_cpN(932, str, len): the conversion is strict (no //IGNORE), so a
\* character that code page 932 lacks makes rp_iconv() fail and the result
\* is the empty string.
utf8_to_cpN(str) ==
    LET cps == IF str = <<>> THEN <<>> ELSE Utf8Decode(str, 1) IN
    IF \A i \in 1..Len(cps) : Cp932Convertible(cps[i])
    THEN [i \in 1..Len(cps) |-> CodePointToCp932(cps[i])]
    ELSE <<>>

----------------------------------------------------------------------------
(* 32-bit unsigned integers.  A uint32_t is the pair <<high 16 bits, low  *)
(* 16 bits>>, so that every value of the type has an exact representation.*)

U32(n) == <<n \div 65536, n % 65536>>           \* of a natural number below 2^31
U32FromBytes(b0, b1, b2, b3) == <<b0 * 256 + b1, b2 * 256 + b3>>   \* b0 most significant
U32Bytes(u) == <<u[1] \div 256, u[1] % 256, u[2] \div 256, u[2] % 256>>
U32Add(u, v) == <<(u[1] + v[1] + ((u[2] + v[2]) \div 65536)) % 65536, (u[2] + v[2]) % 65536>>
U32Less(u, v) == u[1] < v[1] \/ (u[1] = v[1] /\ u[2] < v[2])
U32IsSmall(u) == u[1] < 16384                   \* below 2^30
U32Nat(u) == u[1] * 65536 + u[2]                \* of a small value

\* __swab32 / __swab16.
Swab32(u) == LET b == U32Bytes(u) IN U32FromBytes(b[4], b[3], b[2], b[1])
Swab16(x) == ((x % 256) * 256) + (x \div 256)

\* Byte order conversion macros of byteswap.h on a host of the given order.
be32_to_cpu(u, hostBig) == IF hostBig THEN u ELSE Swab32(u)
le32_to_cpu(u, hostBig) == IF hostBig THEN Swab32(u) ELSE u
\* A conversion that leaves the value in host order.
cpu_to_host32(u, hostBig) == u

cpu_to_be32(u, hostBig) == IF hostBig THEN u ELSE Swab32(u)
be16_to_cpu(x, hostBig) == IF hostBig THEN x ELSE Swab16(x)
le16_to_cpu(x, hostBig) == IF hostBig THEN Swab16(x) ELSE x

----------------------------------------------------------------------------
(* XML documents as the TinyXML2 API shows them to loadXML / saveXML.    *)

None == [has |-> FALSE, val |-> <<>>]
Some(v) == [has |-> TRUE, val |-> v]

\* The result of QueryUnsignedAttribute("index").
IdxOk(i) == [kind |-> "ok", val |-> i]
IdxNone == [kind |-> "none", val |-> <<0, 0>>]
IdxWrong == [kind |-> "wrong", val |-> <<0, 0>>]

NoFile == [exists |-> FALSE]

\* A message element.
Msg(index, name, text, placeholder) ==
    [index |-> index, name |-> name, text |-> text, placeholder |-> placeholder]

\* A document: parseOk is whether XMLDocument::LoadFile() succeeds.
Doc(parseOk, hasRoot, name, ver, endian, msgs) ==
    [exists |-> TRUE, parseOk |-> parseOk, hasRoot |-> hasRoot, name |-> name,
     mst_version |-> ver, endianness |-> endian, msgs |-> msgs]

\* XMLElement::GetText() after parsing: TinyXML2 takes a text node that holds
\* only white space as no text at all (the reason for the \x20 workaround
\* in Mst::escape).
IsXmlSpace(c) == c \in {9, 10, 13, 32}
GetText(msg) ==
    IF msg.text.has /\ (\E i \in 1..Len(msg.text.val) : ~IsXmlSpace(msg.text.val[i]))
    THEN msg.text.val ELSE <<>>

XML_ERROR_PARSING == 3      \* any non-zero XMLError

\* std::vector::resize(n) on the string table.
Resize(tbl, n) ==
    IF n <= Len(tbl) THEN SubSeq(tbl, 1, n)
    ELSE tbl \o [i \in 1..(n - Len(tbl)) |-> [first |-> <<>>, second |-> <<>>]]

\* m_mapPlaceholder.insert(std::make_pair(index, name)): an existing key is kept.
PlcInsert(plc, index, name) == MapInsert(plc, index, name)

\* A duplicate check that looks only at the size of the table, so that a slot
\* resize() made for a higher index counts as an earlier message.
IsInsideTable(tbl, index) == U32IsSmall(index) /\ U32Nat(index) < Len(tbl)

\* The duplicate check of loadXML (Mst.cpp:480-491): whether the message
\* replaces an entry that already has a name.
IsDuplicate(tbl, index) ==
    U32IsSmall(index) /\ U32Nat(index) < Len(tbl) /\ tbl[U32Nat(index) + 1].first # <<>>

\* One iteration of the message loop of loadXML (Mst.cpp:423-510) on the
\* state st = [tbl, lkup, plc, errs, stop]; sink is whether pVecErrs is given.
\* index is an unsigned int, a 32-bit value. stop is "" while the loop runs,
\* "alloc" when resize() is asked for 2^30 entries or more and throws, "ub"
\* after m_vStrTbl[index] was written outside the vector.
XmlMsgStep(st, msg, sink) ==
    LET Diag(k, i) == IF sink THEN Append(st.errs, [kind |-> k, index |-> i])
                      ELSE st.errs
    IN
    IF st.stop # "" THEN st
    ELSE IF msg.index.kind = "none" THEN [st EXCEPT !.errs = Diag("noIndex", U32(0))]
    ELSE IF msg.index.kind = "wrong" THEN [st EXCEPT !.errs = Diag("badIndex", U32(0))]
    ELSE IF ~msg.name.has THEN [st EXCEPT !.errs = Diag("noName", U32(0))]
    ELSE IF msg.name.val = <<>> THEN [st EXCEPT !.errs = Diag("emptyName", U32(0))]
    ELSE
      LET index == msg.index.val
          dup == IsDuplicate(st.tbl, index)
          errs1 == IF dup THEN Diag("dupIndex", index) ELSE st.errs
          lkup1 == IF dup THEN MapErase(st.lkup, st.tbl[U32Nat(index) + 1].first)
                   ELSE st.lkup
          grow == ~U32IsSmall(index) \/ U32Nat(index) >= Len(st.tbl)
          newSize == U32Add(index, U32(1))
      IN
      IF grow /\ ~U32IsSmall(newSize)
      THEN [st EXCEPT !.lkup = lkup1, !.errs = errs1, !.stop = "alloc"]
      ELSE
        LET tbl1 == IF grow THEN Resize(st.tbl, U32Nat(newSize)) ELSE st.tbl IN
        IF ~U32IsSmall(index) \/ U32Nat(index) >= Len(tbl1)
        THEN [st EXCEPT !.tbl = tbl1, !.lkup = lkup1, !.errs = errs1, !.stop = "ub"]
        ELSE
          [tbl |-> [tbl1 EXCEPT ![U32Nat(index) + 1] =
                      [first |-> msg.name.val,
                       second |-> Unescape16(utf8_to_utf16(GetText(msg)))]],
           lkup |-> LkupInsert(lkup1, msg.name.val, U32Nat(index)),
           plc |-> IF msg.placeholder.has
                   THEN PlcInsert(st.plc, U32Nat(index), msg.placeholder.val)
                   ELSE st.plc,
           errs |-> errs1,
           stop |-> ""]

\* The message loop with a break where the code has "continue" for an
\* element without a usable index.
RECURSIVE XmlMsgLoopBreak(_, _, _, _)
XmlMsgLoopBreak(st, msgs, i, sink) ==
    IF i > Len(msgs) THEN st
    ELSE IF msgs[i].index.kind # "ok" THEN XmlMsgStep(st, msgs[i], sink)
    ELSE XmlMsgLoopBreak(XmlMsgStep(st, msgs[i], sink), msgs, i + 1, sink)

RECURSIVE XmlMsgLoop(_, _, _, _)
XmlMsgLoop(st, msgs, i, sink) ==
    IF i > Len(msgs) THEN st
    ELSE XmlMsgLoop(XmlMsgStep(st, msgs[i], sink), msgs, i + 1, sink)

\* The object after the clear at the top of loadMST / loadXML.
Cleared == [version |-> Ch_1, big |-> TRUE, name |-> <<>>, tbl |-> <<>>,
            plc |-> EmptyMap, lkup |-> EmptyMap]

\* Mst::loadXML(FILE*, pVecErrs) on an open document: the object state, the
\* return value, and the diagnostics pushed to pVecErrs.
LoadXMLResult(doc, sink) ==
    LET D(k) == IF sink THEN <<[kind |-> k, index |-> U32(0)]>> ELSE <<>>
        R(obj, r, errs, stop) == [obj |-> obj, ret |-> r, errs |-> errs, stop |-> stop]
        ver == IF doc.mst_version.has
               THEN CharAt(doc.mst_version.val, 1) ELSE Ch_1
        verErrs == IF doc.mst_version.has /\ doc.mst_version.val # <<Ch_1>>
                   THEN D("version") ELSE <<>>
        endOk == doc.endianness.has /\ doc.endianness.val \in {<<Ch_B>>, <<Ch_L>>}
        big == IF endOk THEN doc.endianness.val = <<Ch_B>> ELSE TRUE
        endErrs == IF doc.endianness.has /\ ~endOk THEN D("endianness") ELSE <<>>
        obj1 == [Cleared EXCEPT !.version = ver, !.big = big]
        errs1 == verErrs \o endErrs
    IN
    IF ~doc.parseOk THEN R(Cleared, XML_ERROR_PARSING, D("parse"), "")
    ELSE IF ~doc.hasRoot THEN R(Cleared, -EIO, D("noRoot"), "")
    ELSE IF ~doc.name.has THEN R(obj1, -EIO, errs1 \o D("noTblName"), "")
    ELSE IF doc.name.val = <<>> THEN R(obj1, -EIO, errs1 \o D("emptyTblName"), "")
    ELSE IF doc.msgs = <<>> THEN R(obj1, -EIO, errs1 \o D("noMessages"), "")
    ELSE
      LET st == XmlMsgLoop([tbl |-> <<>>, lkup |-> EmptyMap, plc |-> EmptyMap,
                            errs |-> errs1, stop |-> ""], doc.msgs, 1, sink)
      IN R([obj1 EXCEPT !.name = doc.name.val, !.tbl = st.tbl,
                        !.plc = st.plc, !.lkup = st.lkup],
           0, st.errs, st.stop)

\* Mst::saveXML(FILE*) on a non-empty table: the document it prints.
SaveXMLDoc(ver, big, name, tbl, plc) ==
    Doc(TRUE, TRUE, Some(name), Some(<<ver>>), Some(IF big THEN <<Ch_B>> ELSE <<Ch_L>>),
        [i \in 1..Len(tbl) |->
            Msg(IdxOk(U32(i - 1)),
                Some(tbl[i].first),
                IF tbl[i].second # <<>>
                    THEN Some(Escape(utf16_to_utf8(tbl[i].second))) ELSE None,
                IF (i - 1) \in DOMAIN plc THEN Some(Escape(plc[i - 1])) ELSE None)])

\* Mst::strText_utf16(size_t index) and Mst::strText_utf16(const string &name).
StrTextAt(tbl, index) == IF index >= Len(tbl) THEN <<>> ELSE tbl[index + 1].second

StrTextByName(lkup, tbl, name) ==
    IF name \notin DOMAIN lkup THEN <<>> ELSE StrTextAt(tbl, lkup[name])

----------------------------------------------------------------------------
(* Binary MST files: loadMST.  A file is a sequence of bytes; offsets in *)
(* the code are 0-based, positions of the sequence 1-based.              *)

SIZEOF_MST_Header == 32
SIZEOF_WTXT_Header == 12
SIZEOF_WTXT_MsgPointer == 12
MAX_FILE_SIZE == 16777216       \* 16U*1024*1024
BINA_MAGIC == 1112100417        \* 'BINA' = 0x42494E41
WTXT_MAGIC == 1465145428        \* 'WTXT' = 0x57545854

\* The byte at 0-based offset pos of a buffer of size bytes; a read past the
\* end of the buffer finds whatever byte g lies there.
ByteAt(buf, size, pos, g) == IF pos < size THEN buf[pos + 1] ELSE g

\* A uint32_t / uint16_t field at offset pos, as the host reads it from memory.
MemU32(buf, size, pos, g, hostBig) ==
    LET b0 == ByteAt(buf, size, pos, g)
        b1 == ByteAt(buf, size, pos + 1, g)
        b2 == ByteAt(buf, size, pos + 2, g)
        b3 == ByteAt(buf, size, pos + 3, g) IN
    IF hostBig THEN U32FromBytes(b0, b1, b2, b3) ELSE U32FromBytes(b3, b2, b1, b0)

MemU16(buf, size, pos, g, hostBig) ==
    LET b0 == ByteAt(buf, size, pos, g)
        b1 == ByteAt(buf, size, pos + 1, g) IN
    IF hostBig THEN b0 * 256 + b1 ELSE b1 * 256 + b0

\* A field of the data region: swapped when host and file byte order differ.
FileU32(buf, size, pos, g, hostBig, fileBig) ==
    IF hostBig = fileBig THEN MemU32(buf, size, pos, g, hostBig)
    ELSE Swab32(MemU32(buf, size, pos, g, hostBig))

\* The test "&pOffTblU8[offset] >= pOffTblEndU8" in a flat address space:
\* the buffer holds size <= 16 MiB bytes and the data region starts at base.
PastEnd(offset, base, size) ==
    ~U32IsSmall(offset) \/ base + U32Nat(offset) >= size

\* The bytes strnlen(p, end - p) delimits: from offset pos up to a NUL or
\* the end of the buffer.
RECURSIVE CStrAt(_, _, _)
CStrAt(buf, size, pos) ==
    IF pos >= size \/ buf[pos + 1] = NUL THEN <<>>
    ELSE <<buf[pos + 1]>> \o CStrAt(buf, size, pos + 1)

\* The text loop of loadMST (Mst.cpp:245-261): 16-bit units from offset pos
\* while pos < size, up to a zero unit; each converted from file byte order.
RECURSIVE TextAt(_, _, _, _, _, _)
TextAt(buf, size, pos, g, hostBig, fileBig) ==
    IF pos >= size THEN <<>>
    ELSE LET raw == MemU16(buf, size, pos, g, hostBig) IN
         IF raw = 0 THEN <<>>
         ELSE <<IF fileBig THEN be16_to_cpu(raw, hostBig) ELSE le16_to_cpu(raw, hostBig)>>
                \o TextAt(buf, size, pos + 2, g, hostBig, fileBig)

\* Whether that loop reads a code unit whose second byte is outside the buffer.
RECURSIVE TextReadsPastEnd(_, _, _, _, _)
TextReadsPastEnd(buf, size, pos, g, hostBig) ==
    IF pos >= size THEN FALSE
    ELSE IF pos + 1 >= size THEN TRUE
    ELSE IF MemU16(buf, size, pos, g, hostBig) = 0 THEN FALSE
    ELSE TextReadsPastEnd(buf, size, pos + 2, g, hostBig)

\* The record loop of loadMST (Mst.cpp:209-274) from record idx on; p is the
\* offset of the record in the file buffer, base the offset of the WTXT header.
\* The moved-from msgText is taken to be empty at the start of each iteration.
RECURSIVE MstRecordLoop(_, _, _, _, _, _, _)
MstRecordLoop(st, buf, size, idx, g, hostBig, fileBig) ==
    LET base == SIZEOF_MST_Header
        p == base + SIZEOF_WTXT_Header + idx * SIZEOF_WTXT_MsgPointer
        name_offset == FileU32(buf, size, p, g, hostBig, fileBig)
        text_offset == FileU32(buf, size, p + 4, g, hostBig, fileBig)
        placeholder_offset == FileU32(buf, size, p + 8, g, hostBig, fileBig)
        hasPlc == placeholder_offset # U32(0)
        oob1 == st.oob \/ (p + SIZEOF_WTXT_MsgPointer > size)
    IN
    IF ~(p < size) THEN st
    ELSE IF PastEnd(name_offset, base, size) THEN [st EXCEPT !.oob = oob1]
    ELSE IF PastEnd(text_offset, base, size) THEN [st EXCEPT !.oob = oob1]
    ELSE IF hasPlc /\ PastEnd(placeholder_offset, base, size) THEN [st EXCEPT !.oob = oob1]
    ELSE
      LET pMsgName == base + U32Nat(name_offset)
          pMsgText == base + U32Nat(text_offset)
          msgName == cpN_to_utf8(CStrAt(buf, size, pMsgName))
          msgText == TextAt(buf, size, pMsgText, g, hostBig, fileBig)
      IN MstRecordLoop(
            [tbl |-> Append(st.tbl, [first |-> msgName, second |-> msgText]),
             lkup |-> LkupInsert(st.lkup, msgName, idx),
             plc |-> IF hasPlc
                     THEN MapInsert(st.plc, idx,
                            cpN_to_utf8(CStrAt(buf, size, base + U32Nat(placeholder_offset))))
                     ELSE st.plc,
             oob |-> oob1 \/ TextReadsPastEnd(buf, size, pMsgText, g, hostBig)],
            buf, size, idx + 1, g, hostBig, fileBig)

\* A size check that also refuses a file of exactly the minimum size.
FileTooSmallOrMinimal(file_size) ==
    ~U32Less(U32(SIZEOF_MST_Header + SIZEOF_WTXT_Header + SIZEOF_WTXT_MsgPointer), file_size)

\* The file size check of loadMST (Mst.cpp:131-139).
FileTooSmall(file_size) ==
    U32Less(file_size, U32(SIZEOF_MST_Header + SIZEOF_WTXT_Header + SIZEOF_WTXT_MsgPointer))
FileTooBig(file_size) == U32Less(U32(MAX_FILE_SIZE), file_size)

\* The offset table check (Mst.cpp:142), a 64-bit sum:
\* sizeof(MST_Header) + doff_tbl_offset + doff_tbl_length > file_size.
DoffOutside(doff_tbl_offset, doff_tbl_length, file_size) ==
    LET lo == SIZEOF_MST_Header + doff_tbl_offset[2] + doff_tbl_length[2]
        hi == doff_tbl_offset[1] + doff_tbl_length[1] + (lo \div 65536)
    IN hi > file_size[1] \/ (hi = file_size[1] /\ (lo % 65536) > file_size[2])

\* The object after the clear at the top of loadMST (Mst.cpp:88-94).
ClearedForMST == Cleared

\* Mst::loadMST(FILE*) on an open file holding bytes: the object state, the
\* return value, the check that ended the load, and whether a byte outside
\* the buffer was read.
LoadMSTResult(bytes, g, hostBig) ==
    LET n == Len(bytes)
        R(obj, r, at, oob) == [obj |-> obj, ret |-> r, at |-> at, oob |-> oob]
        version == bytes[23]
        endianness == bytes[24]
        big == (endianness = Ch_B)
        obj1 == [ClearedForMST EXCEPT !.version = version, !.big = big]
        Field(pos) == IF big THEN be32_to_cpu(MemU32(bytes, n, pos, 0, hostBig), hostBig)
                      ELSE le32_to_cpu(MemU32(bytes, n, pos, 0, hostBig), hostBig)
        file_size == Field(0)
        doff_tbl_offset == Field(4)
        doff_tbl_length == Field(8)
    IN
    IF n < SIZEOF_MST_Header THEN R(ClearedForMST, -EIO, "read", FALSE)
    ELSE IF MemU32(bytes, n, 24, 0, hostBig) # cpu_to_be32(U32(BINA_MAGIC), hostBig)
        THEN R(ClearedForMST, -EIO, "magic", FALSE)
    ELSE IF version # Ch_1 \/ (endianness # Ch_B /\ endianness # Ch_L)
        THEN R(ClearedForMST, -EIO, "version", FALSE)
    ELSE IF FileTooSmall(file_size) THEN R(obj1, -EIO, "tooSmall", FALSE)
    ELSE IF FileTooBig(file_size) THEN R(obj1, -EIO, "tooBig", FALSE)
    ELSE IF DoffOutside(doff_tbl_offset, doff_tbl_length, file_size)
        THEN R(obj1, -EIO, "doff", FALSE)
    ELSE IF n < U32Nat(file_size) THEN R(obj1, -EIO, "shortRead", FALSE)
    ELSE
      LET size == U32Nat(file_size)
          base == SIZEOF_MST_Header
          tbl_name_offset == FileU32(bytes, size, base + 4, g, hostBig, big)
          name == IF PastEnd(tbl_name_offset, base, size) THEN <<>>
                  ELSE cpN_to_utf8(CStrAt(bytes, size, base + U32Nat(tbl_name_offset)))
          st == MstRecordLoop([tbl |-> <<>>, lkup |-> EmptyMap, plc |-> EmptyMap,
                               oob |-> FALSE], bytes, size, 0, g, hostBig, big)
      IN R([obj1 EXCEPT !.name = name, !.tbl = st.tbl, !.plc = st.plc, !.lkup = st.lkup],
           0, "done", st.oob)

----------------------------------------------------------------------------
(* saveMST. *)

INVALID_OFFSET == <<65535, 65535>>      \* ~0U

\* "mst06_generic_name"
GenericName == <<109, 115, 116, 48, 54, 95, 103, 101, 110, 101, 114, 105, 99,
                 95, 110, 97, 109, 101>>

\* Decimal digits of n, as "%zu" prints them.
RECURSIVE Decimal(_)
Decimal(n) == IF n < 10 THEN <<Ch_0 + n>> ELSE Decimal(n \div 10) \o <<Ch_0 + (n % 10)>>

\* snprintf(buf, sizeof(buf), "XXX_MSG_%zu", idx)
XxxMsgName(idx) == <<88, 88, 88, 95, 77, 83, 71, 95>> \o Decimal(idx)

\* The bytes of a uint32_t / char16_t in the memory of the host.
MemBytes32(u, hostBig) ==
    LET b == U32Bytes(u) IN IF hostBig THEN b ELSE <<b[4], b[3], b[2], b[1]>>

MemBytes16(x, hostBig) ==
    IF hostBig THEN <<x \div 256, x % 256>> ELSE <<x % 256, x \div 256>>

RECURSIVE Flatten(_, _)
Flatten(seqs, i) == IF i > Len(seqs) THEN <<>> ELSE seqs[i] \o Flatten(seqs, i + 1)

Zeros(n) == [i \in 1..n |-> 0]

\* std::vector<char>::resize(n).
ResizeBytes(v, n) == IF n <= Len(v) THEN SubSeq(v, 1, n) ELSE v \o Zeros(n - Len(v))

\* vMsgNames.resize(off + len + 1) followed by memcpy(&vMsgNames[off], str, len + 1).
PutCStr(v, off, str) ==
    LET n == off + Len(str) + 1
        w == ResizeBytes(v, n) IN
    [i \in 1..n |-> IF i > off /\ i <= off + Len(str) THEN str[i - off]
                    ELSE IF i = off + Len(str) + 1 THEN NUL ELSE w[i]]

\* Name or placeholder lookup / append of the entry loop (Mst.cpp:636-656 and
\* 704-724): the offset, the name blob and the deduplication map afterwards.
DedupeName(st, name) ==
    IF name \in DOMAIN st.dedupe
    THEN [off |-> U32(st.dedupe[name]), names |-> st.names, dedupe |-> st.dedupe]
    ELSE [off |-> U32(Len(st.names)),
          names |-> PutCStr(st.names, Len(st.names), utf8_to_cpN(name)),
          dedupe |-> MapInsert(st.dedupe, name, Len(st.names))]

\* The table name at the head of the name blob (Mst.cpp:596-611): the blob
\* and the deduplication map before the entry loop.
TableNameBlob(name) ==
    IF name # <<>>
    THEN [names |-> name \o <<NUL>>, dedupe |-> MapInsert(EmptyMap, name, 0)]
    ELSE [names |-> GenericName \o <<NUL>>, dedupe |-> EmptyMap]

\* The text offset of an entry (Mst.cpp:670-696): c16pos * sizeof(char16_t)
\* for a non-empty text, else still INVALID_OFFSET.
TextOffset(text, c16pos) == IF text # <<>> THEN U32(c16pos * 2) ELSE INVALID_OFFSET

\* The end of one iteration (Mst.cpp:727-748): the differential offset
\* values and the record, or the failed assert() / return -EIO.
SaveEntryRecord(st, name_offset, text_offset, placeholder_offset, ndebug) ==
    IF name_offset = INVALID_OFFSET \/ text_offset = INVALID_OFFSET
    THEN [st EXCEPT !.stop = IF ndebug THEN "EIO" ELSE "assertText"]
    ELSE [st EXCEPT
            !.diff = st.diff \o (IF placeholder_offset # INVALID_OFFSET
                                 THEN <<Ch_A, Ch_A, Ch_A>> ELSE <<Ch_A, Ch_B>>),
            !.offs = Append(st.offs, [name_offset |-> name_offset,
                                      text_offset |-> text_offset,
                                      placeholder_offset |-> placeholder_offset])]

\* The placeholder of entry idx (Mst.cpp:698-725), pl being its lookup in the
\* deduplication map.
SaveEntryPlaceholder(st, pl, name_offset, text_offset, ndebug) ==
    SaveEntryRecord([st EXCEPT !.names = pl.names, !.dedupe = pl.dedupe],
                    name_offset, text_offset, pl.off, ndebug)

\* The text of an entry (Mst.cpp:668-696) appended to vMsgText, byte-swapped
\* when host and file byte order differ.
AppendText(vMsgText, text, hostBig, fileBig) ==
    IF text = <<>> THEN vMsgText
    ELSE vMsgText
         \o (IF hostBig = fileBig THEN text ELSE [i \in 1..Len(text) |-> Swab16(text[i])])
         \o <<0>>

\* The name and text of an entry (Mst.cpp:631-696), nm being the lookup of
\* the name in the deduplication map; then the placeholder.
SaveEntryText(st, nm, idx, entry, plc, hostBig, fileBig, ndebug) ==
    SaveEntryPlaceholder(
        [st EXCEPT !.names = nm.names, !.dedupe = nm.dedupe,
                   !.text = AppendText(st.text, entry.second, hostBig, fileBig)],
        IF idx \in DOMAIN plc
        THEN DedupeName([names |-> nm.names, dedupe |-> nm.dedupe], plc[idx])
        ELSE [off |-> INVALID_OFFSET, names |-> nm.names, dedupe |-> nm.dedupe],
        nm.off, TextOffset(entry.second, Len(st.text)), ndebug)

\* One iteration of the entry loop of saveMST (Mst.cpp:625-749) on
\* st = [names, text, offs, diff, dedupe, stop]; stop is "" while the loop runs,
\* "memcpy" after the out-of-range memcpy of an empty name, "assertText"
\* where assert() fails, "EIO" at the return -EIO.
SaveEntryStep(st, idx, entry, plc, hostBig, fileBig, ndebug) ==
    IF st.stop # "" THEN st
    ELSE IF entry.first = <<>> THEN
        \* ptr.name_offset is still INVALID_OFFSET: the unsigned sum
        \* name_offset + len + 1 wraps to len, vMsgNames is resized to that, and
        \* the memcpy targets &vMsgNames[0xFFFFFFFF].
        [st EXCEPT !.names = ResizeBytes(st.names,
                        U32Nat(U32Add(INVALID_OFFSET, U32(Len(XxxMsgName(idx)) + 1)))),
                   !.stop = "memcpy"]
    ELSE SaveEntryText(st, DedupeName(st, entry.first), idx, entry, plc,
                       hostBig, fileBig, ndebug)

RECURSIVE SaveEntryLoop(_, _, _, _, _, _, _)
SaveEntryLoop(st, tbl, idx, plc, hostBig, fileBig, ndebug) ==
    IF idx >= Len(tbl) THEN st
    ELSE SaveEntryLoop(SaveEntryStep(st, idx, tbl[idx + 1], plc, hostBig, fileBig, ndebug),
                       tbl, idx + 1, plc, hostBig, fileBig, ndebug)

\* Rebasing and byte-swapping of one record (Mst.cpp:783-808).
RebaseOffset(off, tbl_base) ==
    IF off = INVALID_OFFSET THEN U32(0) ELSE U32Add(off, U32(tbl_base))

RebaseRecord(r, text_tbl_base, name_tbl_base, hostBig, fileBig) ==
    LET Out(x) == IF hostBig = fileBig THEN x ELSE Swab32(x) IN
    [name_offset |-> Out(RebaseOffset(r.name_offset, name_tbl_base)),
     text_offset |-> Out(RebaseOffset(r.text_offset, text_tbl_base)),
     placeholder_offset |-> Out(RebaseOffset(r.placeholder_offset, name_tbl_base))]

\* Padding of a blob whose end lies at offset end to a multiple of 4 bytes
\* (Mst.cpp:762-776).
PadTo4(blob, end) == IF end % 4 # 0 THEN blob \o Zeros(4 - (end % 4)) ELSE blob

\* The headers of the file (Mst.cpp:552-583, 778-780, 810-821). The fields
\* of the WTXT header go through cpu_to_be32 whatever the file's byte order.
SaveHeaders(ver, fileBig, hostBig, count, name_tbl_base, doff_tbl_offset, doff_tbl_length) ==
    MemBytes32(IF hostBig = fileBig
               THEN U32(SIZEOF_MST_Header + doff_tbl_offset + doff_tbl_length)
               ELSE Swab32(U32(SIZEOF_MST_Header + doff_tbl_offset + doff_tbl_length)),
               hostBig)
    \o MemBytes32(IF hostBig = fileBig THEN U32(doff_tbl_offset)
                  ELSE Swab32(U32(doff_tbl_offset)), hostBig)
    \o MemBytes32(IF hostBig = fileBig THEN U32(doff_tbl_length)
                  ELSE Swab32(U32(doff_tbl_length)), hostBig)
    \o Zeros(10)
    \o <<ver, IF fileBig THEN Ch_B ELSE Ch_L>>
    \o MemBytes32(cpu_to_be32(U32(BINA_MAGIC), hostBig), hostBig)
    \o Zeros(4)
    \o MemBytes32(cpu_to_be32(U32(WTXT_MAGIC), hostBig), hostBig)
    \o MemBytes32(cpu_to_be32(U32(name_tbl_base), hostBig), hostBig)
    \o MemBytes32(cpu_to_be32(U32(count), hostBig), hostBig)

\* The records as written (Mst.cpp:782-808, 829-832).
SaveRecords(offs, text_tbl_base, name_tbl_base, hostBig, fileBig) ==
    Flatten([i \in 1..Len(offs) |->
        MemBytes32(RebaseRecord(offs[i], text_tbl_base, name_tbl_base,
                                hostBig, fileBig).name_offset, hostBig)
        \o MemBytes32(RebaseRecord(offs[i], text_tbl_base, name_tbl_base,
                                   hostBig, fileBig).text_offset, hostBig)
        \o MemBytes32(RebaseRecord(offs[i], text_tbl_base, name_tbl_base,
                                   hostBig, fileBig).placeholder_offset, hostBig)], 1)

\* The file written once the blobs are padded (Mst.cpp:778-857).
SaveFile(ver, fileBig, hostBig, offs, vMsgText, vMsgNames, vDiffOffTbl, text_tbl_base, name_tbl_base) ==
    [exists |-> TRUE,
     bytes |-> SaveHeaders(ver, fileBig, hostBig, Len(offs), name_tbl_base,
                           name_tbl_base + Len(vMsgNames), Len(vDiffOffTbl))
               \o SaveRecords(offs, text_tbl_base, name_tbl_base, hostBig, fileBig)
               \o Flatten([i \in 1..Len(vMsgText) |-> MemBytes16(vMsgText[i], hostBig)], 1)
               \o vMsgNames \o vDiffOffTbl,
     vMsgNames |-> vMsgNames,
     vMsgText |-> vMsgText,
     offs |-> offs,
     name_tbl_base |-> name_tbl_base,
     text_tbl_base |-> text_tbl_base,
     doff_tbl_offset |-> name_tbl_base + Len(vMsgNames),
     vDiffOffTbl |-> vDiffOffTbl]

\* saveMST without the removal of the last differential offset value.
SaveLayoutKeepLast(st, ver, fileBig, hostBig, text_tbl_base) ==
    SaveFile(ver, fileBig, hostBig, st.offs, st.text,
             PadTo4(st.names, text_tbl_base + Len(st.text) * 2 + Len(st.names)),
             PadTo4(st.diff, Len(st.diff)),
             text_tbl_base, text_tbl_base + Len(st.text) * 2)

\* The layout after the entry loop (Mst.cpp:751-776): the last differential
\* offset value is dropped, the table bases computed, both blobs padded.
SaveLayout(st, ver, fileBig, hostBig, text_tbl_base) ==
    SaveFile(ver, fileBig, hostBig, st.offs, st.text,
             PadTo4(st.names, text_tbl_base + Len(st.text) * 2 + Len(st.names)),
             PadTo4(SubSeq(st.diff, 1, Len(st.diff) - 1), Len(st.diff) - 1),
             text_tbl_base, text_tbl_base + Len(st.text) * 2)

\* How the entry loop ended and, when it ran to the end, the file written.
SaveResultOf(st, ver, fileBig, hostBig) ==
    IF st.stop # "" THEN [stop |-> st.stop, file |-> NoFile]
    ELSE [stop |-> "",
          file |-> SaveLayout(st, ver, fileBig, hostBig,
                      SIZEOF_WTXT_Header + Len(st.offs) * SIZEOF_WTXT_MsgPointer)]

\* Mst::saveMST(FILE*) on a non-empty table (Mst.cpp:552-857).
SaveMSTResult(ver, fileBig, name, tbl, plc, hostBig, ndebug) ==
    SaveResultOf(
        SaveEntryLoop([names |-> TableNameBlob(name).names,
                       dedupe |-> TableNameBlob(name).dedupe,
                       text |-> <<>>, offs |-> <<>>, diff |-> <<Ch_A, Ch_B>>, stop |-> ""],
                      tbl, 0, plc, hostBig, fileBig, ndebug),
        ver, fileBig, hostBig)

----------------------------------------------------------------------------
(* The operations of an Mst object as actions.                            *)

EACCES == 13

Obj == [version |-> m_version, big |-> m_isBigEndian, name |-> m_name,
        tbl |-> m_vStrTbl, plc |-> m_mapPlaceholder, lkup |-> m_vStrLkup]

\* No statement of Mst.cpp assigns m_vDiffOffTbl: it stays as constructed.
SetObj(o) ==
    /\ m_vDiffOffTbl' = m_vDiffOffTbl
    /\ m_version' = o.version
    /\ m_isBigEndian' = o.big
    /\ m_name' = o.name
    /\ m_vStrTbl' = o.tbl
    /\ m_mapPlaceholder' = o.plc
    /\ m_vStrLkup' = o.lkup

Running == fault = "none" /\ escPc = "off"

\* Mst::loadMST(const TCHAR *filename) and Mst::loadMST(FILE *fp).
\* how: "fp" (open stream), "nullfp", "file" (file opened by name),
\* "emptyname" (null or empty filename), "noent" (the file cannot be opened).
\* g is the byte found by a read past the end of the buffer, crash whether
\* such a read kills the process.
LoadMST(how, bytes, g, crash) ==
    /\ Running
    /\ nOps' = nOps + 1
    /\ UNCHANGED <<hostIsBigEndian, vecErrs, outMst, outXml, snap, escVars, decVars>>
    /\ IF how \in {"nullfp", "emptyname", "noent"}
       THEN /\ ret' = IF how = "noent" THEN -ENOENT ELSE -EINVAL
            /\ op' = [kind |-> "loadMST", how |-> how, reached |-> FALSE]
            /\ UNCHANGED <<objVars, fault, src>>
       ELSE LET r == LoadMSTResult(bytes, g, hostIsBigEndian) IN
            /\ SetObj(r.obj)
            /\ ret' = r.ret
            /\ fault' = IF r.oob /\ crash THEN "ub" ELSE "none"
            /\ src' = [kind |-> "loadMST", ret |-> r.ret, bytes |-> bytes]
            /\ op' = [kind |-> "loadMST", how |-> how, reached |-> TRUE,
                      bytes |-> bytes, at |-> r.at, oob |-> r.oob]

\* Mst::loadXML(const TCHAR *filename, pVecErrs) and Mst::loadXML(FILE *fp, pVecErrs).
LoadXMLOf(kind, how, doc, sink) ==
    /\ Running
    /\ nOps' = nOps + 1
    /\ UNCHANGED <<hostIsBigEndian, outMst, outXml, snap, escVars, decVars>>
    /\ IF how \in {"nullfp", "emptyname", "noent"}
       THEN /\ ret' = IF how = "noent" THEN -ENOENT ELSE -EINVAL
            /\ op' = [kind |-> kind, how |-> how, reached |-> FALSE]
            /\ vecErrs' = <<>>
            /\ UNCHANGED <<objVars, fault, src>>
       ELSE LET r == LoadXMLResult(doc, sink) IN
            /\ SetObj(r.obj)
            /\ ret' = r.ret
            /\ vecErrs' = r.errs
            /\ fault' = IF r.stop = "" THEN "none" ELSE r.stop
            /\ src' = [kind |-> "loadXML", ret |-> r.ret]
            /\ op' = [kind |-> kind, how |-> how, reached |-> TRUE,
                      doc |-> doc, sink |-> sink]

LoadXML(how, doc, sink) == LoadXMLOf("loadXML", how, doc, sink)

\* loadXML of the document the last saveXML wrote.
ReloadXML(sink) ==
    /\ outXml.exists
    /\ LoadXMLOf("reloadXML", "file", outXml, sink)

\* A check that looks at the filename only.
SaveCheckNameOnly(how, tbl) == IF how = "emptyname" THEN -EINVAL ELSE 0

\* The checks at the top of saveMST / saveXML (Mst.cpp:525-529, 548-550,
\* 866-870, 890-892), before any file is opened: the error returned, or 0.
SaveCheck(how, tbl) ==
    IF how = "emptyname" THEN -EINVAL
    ELSE IF tbl = <<>> THEN -ENODATA
    ELSE 0

\* Mst::saveXML(const TCHAR *filename) and Mst::saveXML(FILE *fp).
\* how: "fp", "file", "emptyname", "cantopen" (fopen fails).
SaveXML(how) ==
    /\ Running
    /\ nOps' = nOps + 1
    /\ UNCHANGED <<objVars, hostIsBigEndian, fault, vecErrs, outMst, src, escVars, decVars>>
    /\ IF SaveCheck(how, m_vStrTbl) # 0
       THEN /\ ret' = SaveCheck(how, m_vStrTbl)
            /\ op' = [kind |-> "saveXML", how |-> how, opened |-> FALSE]
            /\ UNCHANGED <<outXml, snap>>
       ELSE IF how = "cantopen"
       THEN /\ ret' = -EACCES
            /\ op' = [kind |-> "saveXML", how |-> how, opened |-> FALSE]
            /\ UNCHANGED <<outXml, snap>>
       ELSE /\ ret' = 0
            /\ op' = [kind |-> "saveXML", how |-> how, opened |-> TRUE]
            /\ outXml' = SaveXMLDoc(m_version, m_isBigEndian, m_name, m_vStrTbl,
                                    m_mapPlaceholder)
            /\ snap' = [snap EXCEPT !.xml = [obj |-> Obj, src |-> src]]

\* The empty file fopen(filename, "wb") leaves when nothing is written to it.
TruncatedFile == [exists |-> TRUE, bytes |-> <<>>]

\* Mst::saveMST(const TCHAR *filename) and Mst::saveMST(FILE *fp).
\* ndebug: whether assert() is compiled out; survive: whether the process
\* outlives the out-of-range memcpy of an empty entry name.
SaveMST(how, ndebug, survive) ==
    /\ Running
    /\ nOps' = nOps + 1
    /\ UNCHANGED <<objVars, hostIsBigEndian, vecErrs, outXml, src, escVars, decVars>>
    /\ IF SaveCheck(how, m_vStrTbl) # 0
       THEN /\ ret' = SaveCheck(how, m_vStrTbl)
            /\ op' = [kind |-> "saveMST", how |-> how, opened |-> FALSE]
            /\ UNCHANGED <<outMst, snap, fault>>
       ELSE IF how = "cantopen"
       THEN /\ ret' = -EACCES
            /\ op' = [kind |-> "saveMST", how |-> how, opened |-> FALSE]
            /\ UNCHANGED <<outMst, snap, fault>>
       ELSE LET r == SaveMSTResult(m_version, m_isBigEndian, m_name, m_vStrTbl,
                                   m_mapPlaceholder, hostIsBigEndian, ndebug)
                died == IF r.stop = "memcpy" /\ ~survive THEN "ub"
                        ELSE IF r.stop = "memcpy" /\ ~ndebug THEN "assert"
                        ELSE IF r.stop \in {"assertName", "assertText"} THEN "assert"
                        ELSE "none"
            IN
            /\ fault' = died
            /\ ret' = IF r.stop = "" THEN 0 ELSE IF died = "none" THEN -EIO ELSE ret
            /\ op' = [kind |-> "saveMST", how |-> how, opened |-> TRUE, stop |-> r.stop]
            /\ outMst' = IF r.stop = "" THEN r.file
                         ELSE IF how = "file" THEN TruncatedFile ELSE outMst
            /\ snap' = IF r.stop = ""
                       THEN [snap EXCEPT !.mst = [obj |-> Obj, src |-> src]]
                       ELSE snap

\* The state after construction: Mst::Mst().
NoSnap == [obj |-> Cleared, src |-> [kind |-> "new", ret |-> 0]]

InitObj ==
    /\ m_version = Ch_1
    /\ m_isBigEndian = TRUE
    /\ m_name = <<>>
    /\ m_vStrTbl = <<>>
    /\ m_mapPlaceholder = EmptyMap
    /\ m_vStrLkup = EmptyMap
    /\ m_vDiffOffTbl = <<>>

InitEnv ==
    /\ hostIsBigEndian \in BOOLEAN
    /\ ret = 0
    /\ fault = "none"
    /\ op = [kind |-> "new"]
    /\ vecErrs = <<>>
    /\ outMst = NoFile
    /\ outXml = NoFile
    /\ src = [kind |-> "new", ret |-> 0]
    /\ snap = [xml |-> NoSnap, mst |-> NoSnap]
    /\ nOps = 0

EscOff == escIn = <<>> /\ escMid = <<>> /\ escOut = <<>> /\ escPc = "off"

\* The legacy decoder (mst06.cpp) has not been started.
DecOff ==
    /\ mst_data = <<>>
    /\ pOffsetTbl = 0
    /\ pTbl = 0
    /\ vMsgOffsets = <<>>
    /\ decWrap = FALSE
    /\ decSteps = <<>>
    /\ idxRead = <<>>
    /\ vStrTbl = <<>>
    /\ msgAt = <<>>
    /\ decPc = "off"

----------------------------------------------------------------------------
(* Escape and unescape of one string.                                     *)

\* Characters of the strings given to escape().
EscAlphabet == {BACKSLASH, LF, FF, SPACE, Ch_x, Ch_n, Ch_2, Ch_0}

RECURSIVE StringsUpTo(_, _)
StringsUpTo(S, n) ==
    IF n = 0 THEN {<<>>}
    ELSE LET shorter == StringsUpTo(S, n - 1) IN
         shorter \cup {Append(s, c) : s \in {t \in shorter : Len(t) = n - 1}, c \in S}

InitEsc ==
    /\ InitObj
    /\ InitEnv
    /\ DecOff
    /\ escIn \in StringsUpTo(EscAlphabet, MaxStrLen)
    /\ escMid = <<>>
    /\ escOut = <<>>
    /\ escPc = "in"

DoEscape ==
    /\ escPc = "in"
    /\ escMid' = Escape(escIn)
    /\ escPc' = "escaped"
    /\ UNCHANGED <<objVars, envVars, escIn, escOut, decVars>>

DoUnescape ==
    /\ escPc = "escaped"
    /\ escOut' = Unescape(escMid)
    /\ escPc' = "unescaped"
    /\ UNCHANGED <<objVars, envVars, escIn, escMid, decVars>>

NextEsc == DoEscape \/ DoUnescape

SpecEsc == InitEsc /\ [][NextEsc]_vars

\* unescape applied to a string as it is, by each of the two overloads.
InitUnesc ==
    /\ InitObj
    /\ InitEnv
    /\ DecOff
    /\ escIn \in StringsUpTo(EscAlphabet, MaxStrLen)
    /\ escMid = <<>>
    /\ escOut = <<>>
    /\ escPc = "raw"

DoUnescapeUtf8 ==
    /\ escPc = "raw"
    /\ escOut' = Unescape(escIn)
    /\ escPc' = "raw8"
    /\ UNCHANGED <<objVars, envVars, escIn, escMid, decVars>>

DoUnescapeUtf16 ==
    /\ escPc = "raw"
    /\ escOut' = Unescape16(escIn)
    /\ escPc' = "raw16"
    /\ UNCHANGED <<objVars, envVars, escIn, escMid, decVars>>

NextUnesc == DoUnescapeUtf8 \/ DoUnescapeUtf16

SpecUnesc == InitUnesc /\ [][NextUnesc]_vars

----------------------------------------------------------------------------
(* Input MST files, laid out as mst_structs.h describes.                  *)

\* A 32-bit field in the byte order of the file.
Enc32(u, big) == MemBytes32(u, big)

\* NUL-terminated UTF-16 text in the byte order of the file.
EncText(units, big) ==
    Flatten([i \in 1..Len(units) |-> MemBytes16(units[i], big)], 1) \o <<0, 0>>

NameT == <<84>>     \* "T"
NameA == <<65>>     \* "A"
NameB == <<66>>     \* "B"
NameP == <<80>>     \* "P"
NameKana == <<177>> \* halfwidth katakana A (U+FF71) in code page 932
NameSlash == <<BACKSLASH>>  \* a name that is one backslash
TextA == <<97>>     \* "a"
TextMixed == <<BACKSLASH, LF, 233>>     \* backslash, newline, U+00E9
TextSpace == <<SPACE>>

\* The strings that follow the record array: a text, an empty text, and the
\* names "T", nmA and "B"; r is the number of records before them.
StringArea(txt, nmA, big) ==
    EncText(txt, big) \o <<0, 0>> \o NameT \o <<NUL>> \o nmA \o <<NUL>> \o NameB \o <<NUL>>

\* Offsets (from the WTXT header) of those strings; "E" is the NUL that ends
\* "T" (an empty string), "O" the first offset past the end of the file,
\* "L" the last byte of the file and "H" an offset with the top bit set.
StringOffset(which, r, txt, nmA) ==
    LET t1 == SIZEOF_WTXT_Header + r * SIZEOF_WTXT_MsgPointer
        t0 == t1 + 2 * Len(txt) + 2
        nT == t0 + 2
        nA == nT + 2
        nB == nA + Len(nmA) + 1
    IN CASE which = "1" -> U32(t1)
         [] which = "0" -> U32(t0)
         [] which = "T" -> U32(nT)
         [] which = "E" -> U32(nT + 1)
         [] which = "A" -> U32(nA)
         [] which = "B" -> U32(nB)
         [] which = "O" -> U32(nB + 2)
         [] which = "L" -> U32(nB + 1)
         [] which = "H" -> <<65535, 65520>>
         [] which = "-" -> U32(0)

\* The 32-byte MST header.
MstHeader(fileSize, doffOffset, doffLength, version, endianness, magic) ==
    fileSize \o doffOffset \o doffLength \o Zeros(10) \o <<version, endianness>>
    \o magic \o Zeros(4)

MagicBINA == <<66, 73, 78, 65>>
MagicWTXT == <<87, 84, 88, 84>>

\* The data region: WTXT header, record array, strings. recs is a sequence of
\* [n, t, p]: which name, text and placeholder each record points at.
DataRegion(big, tn, recs, txt, nmA) ==
    LET r == Len(recs)
        O(w) == Enc32(StringOffset(w, r, txt, nmA), big)
    IN MagicWTXT \o O(tn) \o Enc32(U32(r), big)
       \o Flatten([i \in 1..r |-> O(recs[i].n) \o O(recs[i].t) \o O(recs[i].p)], 1)
       \o StringArea(txt, nmA, big)

\* A file whose header describes its data region truthfully (no differential
\* offset table: its offset is the end of the file and its length 0).
MstFile(big, tn, recs, txt, nmA) ==
    LET data == DataRegion(big, tn, recs, txt, nmA) IN
    MstHeader(Enc32(U32(SIZEOF_MST_Header + Len(data)), big), Enc32(U32(Len(data)), big),
              Enc32(U32(0), big), Ch_1, IF big THEN Ch_B ELSE Ch_L, MagicBINA)
    \o data

Rec(n, t, p) == [n |-> n, t |-> t, p |-> p]

\* The kinds of record in the input files: plain, with a placeholder (the
\* string "B", or the one in the "A" slot), with
\* an empty name, with an empty text, with each pointer out of bounds, and
\* with the text pointer at the last byte of the file.
RecKinds == {Rec("A", "1", "-"), Rec("B", "1", "-"), Rec("A", "1", "B"), Rec("B", "1", "A"),
             Rec("E", "1", "-"), Rec("A", "0", "-"),
             Rec("O", "1", "-"), Rec("A", "H", "-"), Rec("A", "1", "O"),
             Rec("A", "L", "-")}

RECURSIVE SeqsUpTo(_, _)
SeqsUpTo(S, n) ==
    IF n = 0 THEN {<<>>}
    ELSE LET shorter == SeqsUpTo(S, n - 1) IN
         shorter \cup {Append(s, c) : s \in {t \in shorter : Len(t) = n - 1}, c \in S}

\* Table name pointer and the name the "A" slot holds; in the last profile
\* the table is named by the string in the "A" slot, which is not ASCII.
FileProfiles == {<<"T", NameA>>, <<"E", NameA>>, <<"O", NameA>>, <<"E", GenericName>>,
                 <<"A", NameKana>>, <<"T", NameSlash>>}

DataFiles ==
    {MstFile(big, pr[1], recs, txt, pr[2]) :
        big \in BOOLEAN, pr \in FileProfiles,
        recs \in SeqsUpTo(RecKinds, MaxRecs) \ {<<>>},
        txt \in {TextMixed, TextSpace}}

\* Bytes a read past the end of the buffer may find.
Garbage == {0, 65, 255}

----------------------------------------------------------------------------
(* Input XML documents.                                                   *)

GoodRoot(msgs) == Doc(TRUE, TRUE, Some(NameT), Some(<<Ch_1>>), Some(<<Ch_B>>), msgs)

\* Message elements: valid ones at indices 0..2, and invalid ones.
ValidMsgs ==
    {Msg(IdxOk(U32(i)), Some(n), tp[1], tp[2]) :
        i \in 0..2, n \in {NameA, NameB},
        tp \in {<<Some(TextA), None>>, <<None, Some(NameP)>>}}

InvalidMsgs == {Msg(IdxNone, Some(NameA), Some(TextA), None),
                Msg(IdxOk(U32(0)), Some(<<>>), Some(TextA), None)}

MsgDocs == {GoodRoot(msgs) : msgs \in SeqsUpTo(ValidMsgs \cup InvalidMsgs, MaxMsgs) \ {<<>>}}

----------------------------------------------------------------------------
(* Specifications.                                                        *)

\* loadMST of a data file, then saveXML / saveMST, then loadXML of the
\* document saveXML wrote.
InitRT == InitObj /\ InitEnv /\ EscOff /\ DecOff

LoadDataFile ==
    /\ nOps = 0
    /\ \E f \in DataFiles, g \in Garbage, crash \in BOOLEAN : LoadMST("fp", f, g, crash)

SaveLoadedXML == nOps = 1 /\ SaveXML("fp")

SaveLoadedMST == nOps = 1 /\ \E ndebug \in BOOLEAN, survive \in BOOLEAN :
                                SaveMST("fp", ndebug, survive)

ReloadSavedXML == nOps = 2 /\ op.kind = "saveXML" /\ \E sink \in BOOLEAN : ReloadXML(sink)

NextRT == LoadDataFile \/ SaveLoadedXML \/ SaveLoadedMST \/ ReloadSavedXML

SpecRT == InitRT /\ [][NextRT]_vars

\* loadXML of one document.
InitXml == InitObj /\ InitEnv /\ EscOff /\ DecOff /\ hostIsBigEndian = FALSE

LoadMsgDoc ==
    /\ nOps = 0
    /\ \E d \in MsgDocs, sink \in BOOLEAN : LoadXML("fp", d, sink)

NextXml == LoadMsgDoc

SpecXml == InitXml /\ [][NextXml]_vars

\* loadXML of documents that mix valid message elements with elements the
\* loop skips: no index, an index that is not an unsigned integer, no name,
\* an empty name.
SkippedMsgs == {Msg(IdxNone, Some(NameA), Some(TextA), Some(NameP)),
                Msg(IdxWrong, Some(<<>>), Some(TextA), Some(NameP)),
                Msg(IdxOk(U32(0)), None, Some(TextA), Some(NameP)),
                Msg(IdxOk(U32(1)), Some(<<>>), Some(TextA), Some(NameP))}

StoredMsgs == {Msg(IdxOk(U32(0)), Some(NameA), Some(TextA), Some(NameP)),
               Msg(IdxOk(U32(1)), Some(NameB), Some(NameT), None)}

SkipDocs == {GoodRoot(msgs) : msgs \in SeqsUpTo(StoredMsgs \cup SkippedMsgs, MaxMsgs) \ {<<>>}}

LoadSkipDoc ==
    /\ nOps = 0
    /\ \E d \in SkipDocs, sink \in BOOLEAN : LoadXML("fp", d, sink)

NextSkip == LoadSkipDoc

SpecSkip == InitXml /\ [][NextSkip]_vars

\* loadXML of documents whose message elements name index 0, index 2, and
\* the two ends of the upper half of the unsigned 32-bit range: 2^31 and
\* 2^32 - 1.
IndexValues == {U32(0), U32(2), <<32768, 0>>, <<65535, 65535>>}

IndexMsgs == {Msg(IdxOk(i), Some(NameA), Some(TextA), None) : i \in IndexValues}

IndexDocs == {GoodRoot(msgs) : msgs \in SeqsUpTo(IndexMsgs, MaxMsgs) \ {<<>>}}

LoadIndexDoc ==
    /\ nOps = 0
    /\ \E d \in IndexDocs, sink \in BOOLEAN : LoadXML("fp", d, sink)

NextIndex == LoadIndexDoc

SpecIndex == InitXml /\ [][NextIndex]_vars

\* loadMST of files that differ in their header, on a fresh object and on one
\* that holds a table from an earlier load.
HdrRecs == <<Rec("A", "1", "-")>>

HdrData(big) == DataRegion(big, "T", HdrRecs, TextA, NameA)

HdrFileLen == SIZEOF_MST_Header + Len(HdrData(TRUE))

GoodFile(big) == MstFile(big, "T", HdrRecs, TextA, NameA)

\* Declared file sizes around the two limits, the true size, and 2^32 - 1.
FileSizes == {U32(0), U32(55), U32(56), U32(57), U32(HdrFileLen),
              U32(MAX_FILE_SIZE - 1), U32(MAX_FILE_SIZE), U32(MAX_FILE_SIZE + 1),
              <<65535, 65535>>}

\* Offset and length of the differential offset table: zero, empty at the end
\* of the file, four bytes past the end, and two values whose sum passes 2^32.
DoffFields == {<<U32(0), U32(0)>>,
               <<U32(HdrFileLen - SIZEOF_MST_Header), U32(0)>>,
               <<U32(HdrFileLen - SIZEOF_MST_Header), U32(4)>>,
               <<<<65535, 65535>>, <<65535, 65535>>>>}

Magics == {MagicBINA, <<65, 78, 73, 66>>, <<66, 73, 78, 66>>}

HdrFiles ==
    {MstHeader(Enc32(fs, fieldsBig), Enc32(doff[1], fieldsBig), Enc32(doff[2], fieldsBig),
               ver, end, magic) \o HdrData(end # Ch_L) :
        fs \in FileSizes, fieldsBig \in BOOLEAN, doff \in DoffFields,
        ver \in {Ch_1, Ch_2}, end \in {Ch_B, Ch_L, Ch_x}, magic \in Magics}
    \cup {SubSeq(GoodFile(TRUE), 1, SIZEOF_MST_Header - 1)}

InitHdr == InitObj /\ InitEnv /\ EscOff /\ DecOff

LoadGoodFile ==
    /\ nOps = 0
    /\ \E big \in BOOLEAN : LoadMST("fp", GoodFile(big), 0, FALSE)

SaveGoodXML == nOps = 1 /\ op.kind = "loadMST" /\ ret = 0 /\ SaveXML("fp")

LoadHdrFile ==
    /\ op.kind \in {"new", "saveXML"}
    /\ \E f \in HdrFiles : LoadMST("fp", f, 0, FALSE)

NextHdr == LoadGoodFile \/ SaveGoodXML \/ LoadHdrFile

SpecHdr == InitHdr /\ [][NextHdr]_vars

\* Any sequence of at most MaxOps loads and saves on one object, by stream
\* and by filename, with usable and unusable arguments.
TwoRecords == <<Rec("A", "1", "-"), Rec("B", "1", "B")>>

LifeFiles == {MstFile(TRUE, "T", TwoRecords, TextA, NameA),
              MstFile(FALSE, "T", HdrRecs, TextA, NameA),
              MstHeader(Enc32(U32(HdrFileLen), TRUE), Enc32(U32(0), TRUE),
                        Enc32(U32(0), TRUE), Ch_1, Ch_B, <<66, 73, 78, 66>>)
                  \o HdrData(TRUE)}

LifeDocs == {GoodRoot(<<Msg(IdxOk(U32(0)), Some(NameB), Some(TextA), Some(NameP))>>),
             Doc(TRUE, FALSE, None, None, None, <<>>),
             GoodRoot(<<>>)}

LoadHows == {"fp", "file", "nullfp", "emptyname", "noent"}
SaveHows == {"fp", "file", "emptyname", "cantopen"}

Init == InitObj /\ InitEnv /\ EscOff /\ DecOff

LoadMSTAny ==
    /\ nOps < MaxOps
    /\ \E how \in LoadHows, f \in LifeFiles : LoadMST(how, f, 0, FALSE)

LoadXMLAny ==
    /\ nOps < MaxOps
    /\ \E how \in LoadHows, d \in LifeDocs : LoadXML(how, d, TRUE)

SaveMSTAny ==
    /\ nOps < MaxOps
    /\ \E how \in SaveHows, ndebug \in BOOLEAN : SaveMST(how, ndebug, FALSE)

SaveXMLAny ==
    /\ nOps < MaxOps
    /\ \E how \in SaveHows : SaveXML(how)

Next == LoadMSTAny \/ LoadXMLAny \/ SaveMSTAny \/ SaveXMLAny

Spec == Init /\ [][Next]_vars

----------------------------------------------------------------------------
(* Well-formed MST files: n records, each with a name and a text of its    *)
(* own, the text blob, the name blob and a differential offset table.      *)

\* The name of record i (counted from 1): "A", "B", "C", ...
WfName(i) == <<64 + i>>

\* The bytes of the first k texts in the text blob.
RECURSIVE WfTextLen(_, _)
WfTextLen(texts, k) == IF k = 0 THEN 0 ELSE WfTextLen(texts, k - 1) + 2 * Len(texts[k]) + 2

\* Offsets from the WTXT header: text blob, name blob (the table name "T"
\* comes first), name of record i, the placeholder name "P".
WfTextBase(n) == SIZEOF_WTXT_Header + SIZEOF_WTXT_MsgPointer * n
WfNameBase(texts) == WfTextBase(Len(texts)) + WfTextLen(texts, Len(texts))
WfNameOffset(texts, i) == WfNameBase(texts) + 2 * i
WfPlcOffset(texts) == WfNameBase(texts) + 2 * Len(texts) + 2

WfRecord(texts, plcs, i, big) ==
    Enc32(U32(WfNameOffset(texts, i)), big)
    \o Enc32(U32(WfTextBase(Len(texts)) + WfTextLen(texts, i - 1)), big)
    \o Enc32(U32(IF plcs[i] THEN WfPlcOffset(texts) ELSE 0), big)

\* The data region, padded to a multiple of 4 bytes.
WfData(big, texts, plcs) ==
    PadTo4(MagicWTXT \o Enc32(U32(WfNameBase(texts)), big) \o Enc32(U32(Len(texts)), big)
           \o Flatten([i \in 1..Len(texts) |-> WfRecord(texts, plcs, i, big)], 1)
           \o Flatten([i \in 1..Len(texts) |-> EncText(texts[i], big)], 1)
           \o NameT \o <<NUL>>
           \o Flatten([i \in 1..Len(texts) |-> WfName(i) \o <<NUL>>], 1)
           \o NameP \o <<NUL>>,
           WfPlcOffset(texts) + 2)

\* Differential offset tables for such a file. "pattern": one byte for each
\* offset field that is in use, 'A' (advance 4 bytes) or 'B' (advance 8);
\* "twoByte": the same offsets with the first difference in its two-byte
\* form (0x80 0x01); "none": no table.
WfDoffValues(plcs) ==
    <<Ch_B>> \o Flatten([i \in 1..Len(plcs) |->
                            IF plcs[i] THEN <<Ch_A, Ch_A, Ch_A>> ELSE <<Ch_A, Ch_B>>], 1)

WfDoff(plcs, kind) ==
    LET rest == SubSeq(WfDoffValues(plcs), 1, Len(WfDoffValues(plcs)) - 1) IN
    CASE kind = "pattern" -> PadTo4(<<Ch_A>> \o rest, 1 + Len(rest))
      [] kind = "twoByte" -> PadTo4(<<128, 1>> \o rest, 2 + Len(rest))
      [] kind = "none" -> <<>>

WfDoffKinds == {"pattern", "twoByte", "none"}

WfFile(big, texts, plcs, kind) ==
    MstHeader(Enc32(U32(SIZEOF_MST_Header + Len(WfData(big, texts, plcs))
                        + Len(WfDoff(plcs, kind))), big),
              Enc32(U32(Len(WfData(big, texts, plcs))), big),
              Enc32(U32(Len(WfDoff(plcs, kind))), big),
              Ch_1, IF big THEN Ch_B ELSE Ch_L, MagicBINA)
    \o WfData(big, texts, plcs) \o WfDoff(plcs, kind)

WfTexts == SeqsUpTo({TextSpace, TextA}, MaxWfRecs) \ {<<>>}

\* Files in which no record, or the first record only, has a placeholder.
WfFiles ==
    {WfFile(big, texts, [i \in 1..Len(texts) |-> firstPlc /\ i = 1], kind) :
        big \in BOOLEAN, texts \in WfTexts, firstPlc \in BOOLEAN, kind \in WfDoffKinds}

\* loadMST of a well-formed file, then saveMST of the table.
InitWf == InitObj /\ InitEnv /\ EscOff /\ DecOff

LoadWfFile ==
    /\ nOps = 0
    /\ \E f \in WfFiles, g \in Garbage, crash \in BOOLEAN : LoadMST("fp", f, g, crash)

SaveWfTable == nOps = 1 /\ \E ndebug \in BOOLEAN, survive \in BOOLEAN :
                              SaveMST("fp", ndebug, survive)

NextWf == LoadWfFile \/ SaveWfTable

SpecWf == InitWf /\ [][NextWf]_vars

\* The same followed by loadMST of the file saveMST wrote.
ReloadSavedMST ==
    /\ nOps = 2
    /\ op.kind = "saveMST"
    /\ outMst.exists
    /\ \E g \in Garbage, crash \in BOOLEAN : LoadMST("fp", outMst.bytes, g, crash)

NextWfReload == LoadWfFile \/ SaveWfTable \/ ReloadSavedMST

SpecWfReload == InitWf /\ [][NextWfReload]_vars

----------------------------------------------------------------------------
(* The legacy decoder: _tmain of mst06.cpp.  It reads the whole file,      *)
(* walks the differential offset table and collects the 32-bit value at    *)
(* each position the table leads to.                                       *)

EXIT_FAILURE == 1

\* 2^32 - u, for u above 0.
U32Neg(u) == U32Add(<<65535 - u[1], 65535 - u[2]>>, U32(1))

\* A header field of the file: the decoder takes every file for big-endian
\* (mst06.cpp:67-70).
DecField(bytes, pos, hostBig) ==
    be32_to_cpu(MemU32(bytes, Len(bytes), pos, 0, hostBig), hostBig)

\* The checks before the decode loop (mst06.cpp:50-102): "" when the file
\* is read, else the check that ended the program.
DecRejected(bytes, hostBig) ==
    IF Len(bytes) < SIZEOF_MST_Header THEN "read1"
    ELSE IF MemU32(bytes, Len(bytes), 24, 0, hostBig) # cpu_to_be32(U32(BINA_MAGIC), hostBig)
        THEN "magic"
    ELSE IF FileTooSmall(DecField(bytes, 0, hostBig)) THEN "tooSmall"
    ELSE IF FileTooBig(DecField(bytes, 0, hostBig)) THEN "tooBig"
    ELSE IF DoffOutside(DecField(bytes, 4, hostBig), DecField(bytes, 8, hostBig),
                        DecField(bytes, 0, hostBig)) THEN "doff"
    ELSE IF Len(bytes) < U32Nat(DecField(bytes, 0, hostBig)) THEN "read2"
    ELSE ""

\* The differential offset table of the file read: pOffsetTbl up to
\* pOffsetTblEnd (mst06.cpp:106-107).
DecTable(bytes, hostBig) ==
    SubSeq(bytes, SIZEOF_MST_Header + U32Nat(DecField(bytes, 4, hostBig)) + 1,
           SIZEOF_MST_Header + U32Nat(DecField(bytes, 4, hostBig))
           + U32Nat(DecField(bytes, 8, hostBig)))

\* pTblEnd - &mst_data[sizeof(mst)]: the length of the data region
\* (mst06.cpp:114-115).
DecRegionLen(bytes) == Len(bytes) - SIZEOF_MST_Header

\* The switch of the decode loop (mst06.cpp:126-169) on the byte at index at
\* of table tbl: whether doneOffsets is set, the bytes the difference takes,
\* and offset_diff. The shifted parts do not overlap, so "|" adds them; the
\* 30-bit form is computed in 16-bit halves.
OffsetDiff(tbl, at) ==
    LET b0 == tbl[at + 1] IN
    CASE b0 \div 64 = 0 -> [stop |-> TRUE, used |-> 0, diff |-> U32(0)]
      [] b0 \div 64 = 1 -> [stop |-> FALSE, used |-> 1, diff |-> U32((b0 % 64) * 4)]
      [] b0 \div 64 = 2 ->
            IF at + 2 >= Len(tbl) THEN [stop |-> TRUE, used |-> 0, diff |-> U32(0)]
            ELSE [stop |-> FALSE, used |-> 2,
                  diff |-> U32(((b0 % 64) * 1024) + (tbl[at + 2] * 4))]
      [] b0 \div 64 = 3 ->
            IF at + 4 >= Len(tbl) THEN [stop |-> TRUE, used |-> 0, diff |-> U32(0)]
            ELSE [stop |-> FALSE, used |-> 4,
                  diff |-> <<((b0 % 64) * 1024) + (tbl[at + 2] * 4) + (tbl[at + 3] \div 64),
                             ((tbl[at + 3] % 64) * 1024) + (tbl[at + 4] * 4)>>]

\* pTbl += offset_diff and the test pTbl + 3 >= pTblEnd (mst06.cpp:174-181).
\* Forming a pointer beyond the end of the buffer is undefined: with 64-bit
\* addresses the sum is beyond pTblEnd and the test catches it; with 32-bit
\* addresses a difference above 2^31 wraps, pTbl moves back by
\* 2^32 - offset_diff and passes the test.
AdvanceCursor(cur, diff, regionLen, wrap) ==
    IF wrap /\ U32Less(<<32768, 0>>, diff)
    THEN [range |-> FALSE, pTbl |-> cur - U32Nat(U32Neg(diff))]
    ELSE IF ~U32IsSmall(diff) \/ cur + U32Nat(diff) + 3 >= regionLen
    THEN [range |-> TRUE, pTbl |-> cur]
    ELSE [range |-> FALSE, pTbl |-> cur + U32Nat(diff)]

\* be32_to_cpu(*(uint32_t*)pTbl) (mst06.cpp:185): the value at offset cur of
\* the data region; g is what a byte outside the buffer holds.
DecValueAt(bytes, cur, g, hostBig) ==
    IF SIZEOF_MST_Header + cur < 0 THEN <<g * 257, g * 257>>
    ELSE be32_to_cpu(MemU32(bytes, Len(bytes), SIZEOF_MST_Header + cur, g, hostBig), hostBig)

\* The loop over the decoded offsets (mst06.cpp:218-259) from i on: the
\* indices of vMsgOffsets it reads, in order. offs[k + 1] is vMsgOffsets[k].
RECURSIVE LegacyEntryReads(_, _, _)
LegacyEntryReads(offs, i, size) ==
    IF ~(i + 1 < Len(offs)) THEN <<>>
    ELSE IF PastEnd(offs[i + 1], SIZEOF_MST_Header, size)
            \/ PastEnd(offs[i + 2], SIZEOF_MST_Header, size)
    THEN <<i, i + 1>>
    ELSE <<i, i + 1, i + 1, 0>>
         \o LegacyEntryReads(offs, IF ~U32Less(offs[i + 2], offs[1]) THEN i + 1 ELSE i + 2, size)

\* The test of a text offset against the name offset of its own pair.
TextNotBelowOwnName(offs, i) == ~U32Less(offs[i + 2], offs[i + 1])

\* Whether the text offset of a pair lies in the name table: the test
\* vMsgOffsets[i+1] >= vMsgOffsets[0] (mst06.cpp:236).
TextInNameTable(offs, i) == ~U32Less(offs[i + 2], offs[1])

\* The text of an entry (mst06.cpp:246-254): the 16-bit units from pMsgText
\* up to a zero unit or pTblEnd, each read as big-endian and cut to its low
\* byte.
LegacyText(buf, size, pos, g, hostBig) ==
    [k \in 1..Len(TextAt(buf, size, pos, g, hostBig, TRUE)) |->
        TextAt(buf, size, pos, g, hostBig, TRUE)[k] % 256]

\* The loop over the decoded offsets (mst06.cpp:218-259) from i on: the
\* entries it appends to vStrTbl, each with the value of i it was built at.
RECURSIVE LegacyEntries(_, _, _, _, _, _)
LegacyEntries(offs, i, buf, size, g, hostBig) ==
    IF ~(i + 1 < Len(offs)) THEN <<>>
    ELSE IF PastEnd(offs[i + 1], SIZEOF_MST_Header, size)
            \/ PastEnd(offs[i + 2], SIZEOF_MST_Header, size)
    THEN <<>>
    ELSE <<[i |-> i,
            first |-> CStrAt(buf, size, SIZEOF_MST_Header + U32Nat(offs[i + 1])),
            second |-> IF TextInNameTable(offs, i) THEN <<>>
                       ELSE LegacyText(buf, size, SIZEOF_MST_Header + U32Nat(offs[i + 2]),
                                       g, hostBig)]>>
         \o LegacyEntries(offs, IF TextInNameTable(offs, i) THEN i + 1 ELSE i + 2,
                          buf, size, g, hostBig)

\* Start of the program on a file (mst06.cpp:37-119).
DecodeStart(bytes, wrap) ==
    /\ decPc = "off"
    /\ fault = "none"
    /\ mst_data' = bytes
    /\ decWrap' = wrap
    /\ op' = [kind |-> "mst06", at |-> DecRejected(bytes, hostIsBigEndian)]
    /\ IF DecRejected(bytes, hostIsBigEndian) # ""
       THEN ret' = EXIT_FAILURE /\ decPc' = "exit"
       ELSE ret' = ret /\ decPc' = "loop"
    /\ UNCHANGED <<objVars, hostIsBigEndian, fault, vecErrs, outMst, outXml, src, snap, nOps,
                   escVars, pOffsetTbl, pTbl, vMsgOffsets, decSteps, idxRead, vStrTbl, msgAt>>

\* One pass of the decode loop (mst06.cpp:120-186), its condition included.
DecodeStep ==
    /\ decPc = "loop"
    /\ UNCHANGED <<objVars, hostIsBigEndian, vecErrs, outMst, outXml, src, snap, nOps,
                   escVars, mst_data, decWrap, idxRead, vStrTbl, msgAt>>
    /\ LET tbl == DecTable(mst_data, hostIsBigEndian)
           d == OffsetDiff(tbl, pOffsetTbl)
           a == AdvanceCursor(pTbl, d.diff, DecRegionLen(mst_data), decWrap)
       IN
       IF ~(pOffsetTbl < Len(tbl)) \/ d.stop
       THEN /\ decPc' = "decoded"
            /\ UNCHANGED <<ret, fault, op, pOffsetTbl, pTbl, vMsgOffsets, decSteps>>
       ELSE IF a.range
       THEN /\ decPc' = "exit"
            /\ ret' = EXIT_FAILURE
            /\ op' = [op EXCEPT !.at = "range"]
            /\ decSteps' = Append(decSteps, [at |-> pOffsetTbl, used |-> d.used,
                                             diff |-> d.diff, from |-> pTbl, to |-> pTbl,
                                             read |-> FALSE])
            /\ UNCHANGED <<fault, pOffsetTbl, pTbl, vMsgOffsets>>
       ELSE \E g \in Garbage, crash \in BOOLEAN :
            IF SIZEOF_MST_Header + a.pTbl < 0 /\ crash
            THEN /\ fault' = "ub"
                 /\ decPc' = "exit"
                 /\ UNCHANGED <<ret, op, pOffsetTbl, pTbl, vMsgOffsets, decSteps>>
            ELSE /\ pTbl' = a.pTbl
                 /\ vMsgOffsets' = Append(vMsgOffsets,
                                          DecValueAt(mst_data, a.pTbl, g, hostIsBigEndian))
                 /\ pOffsetTbl' = pOffsetTbl + d.used
                 /\ decSteps' = Append(decSteps, [at |-> pOffsetTbl, used |-> d.used,
                                                  diff |-> d.diff, from |-> pTbl,
                                                  to |-> a.pTbl, read |-> TRUE])
                 /\ UNCHANGED <<ret, fault, op, decPc>>

\* The code after the loop (mst06.cpp:188-261): the table name is taken from
\* vMsgOffsets[0] whether or not the vector holds an element, then the
\* entries from the pairs that follow. Reading vMsgOffsets[0] of an empty
\* vector is undefined: the process dies or goes on with what it found.
DecodeConsume ==
    /\ decPc = "decoded"
    /\ decPc' = "exit"
    /\ idxRead' = <<0>> \o LegacyEntryReads(vMsgOffsets, 1, Len(mst_data))
    /\ \E g \in Garbage :
          /\ vStrTbl' = [k \in 1..Len(LegacyEntries(vMsgOffsets, 1, mst_data, Len(mst_data),
                                                    g, hostIsBigEndian)) |->
                            [first |-> LegacyEntries(vMsgOffsets, 1, mst_data, Len(mst_data),
                                                     g, hostIsBigEndian)[k].first,
                             second |-> LegacyEntries(vMsgOffsets, 1, mst_data, Len(mst_data),
                                                      g, hostIsBigEndian)[k].second]]
          /\ msgAt' = [k \in 1..Len(LegacyEntries(vMsgOffsets, 1, mst_data, Len(mst_data),
                                                  g, hostIsBigEndian)) |->
                          LegacyEntries(vMsgOffsets, 1, mst_data, Len(mst_data),
                                        g, hostIsBigEndian)[k].i]
    /\ \E crash \in BOOLEAN :
          IF vMsgOffsets = <<>> /\ crash
          THEN fault' = "ub" /\ ret' = ret
          ELSE fault' = fault /\ ret' = 0
    /\ UNCHANGED <<objVars, hostIsBigEndian, op, vecErrs, outMst, outXml, src, snap, nOps,
                   escVars, mst_data, pOffsetTbl, pTbl, vMsgOffsets, decWrap, decSteps>>

\* Input files of the decoder: a data region of one record, followed by a
\* differential offset table made of at most MaxDoffCodes codes, cut short
\* by up to 3 bytes.
DecData ==
    MagicWTXT \o Enc32(U32(24), TRUE) \o Enc32(U32(1), TRUE)
    \o Enc32(U32(24), TRUE) \o Enc32(U32(26), TRUE) \o Enc32(U32(0), TRUE)
    \o NameT \o <<NUL>> \o <<0, 0>>

\* Codes: the terminator, a terminator with low bits set, 'A' (4 bytes on),
\* the two-byte form of 4 and of 260, the four-byte form of 4 and of 2^32 - 4.
DecCodes == {<<0>>, <<1>>, <<Ch_A>>, <<128, 1>>, <<128, Ch_A>>, <<192, 0, 0, 1>>,
             <<255, 255, 255, 255>>}

DecTables ==
    {SubSeq(Flatten(ws, 1), 1, Len(Flatten(ws, 1)) - cut) :
        ws \in SeqsUpTo(DecCodes, MaxDoffCodes), cut \in 0..3}

DecFile(tbl, magic) ==
    MstHeader(Enc32(U32(SIZEOF_MST_Header + Len(DecData) + Len(tbl)), TRUE),
              Enc32(U32(Len(DecData)), TRUE), Enc32(U32(Len(tbl)), TRUE),
              Ch_1, Ch_B, magic)
    \o DecData \o tbl

DecFiles == {DecFile(tbl, MagicBINA) : tbl \in DecTables} \cup {DecFile(<<>>, MagicWTXT)}

InitDec == InitObj /\ InitEnv /\ EscOff /\ DecOff

DecodeFile == \E f \in DecFiles, wrap \in BOOLEAN : DecodeStart(f, wrap)

NextDec == DecodeFile \/ DecodeStep \/ DecodeConsume

SpecDec == InitDec /\ [][NextDec]_vars

\* The decoder run on the well-formed files: big-endian ones are decoded,
\* little-endian ones are refused for the file size their header seems to
\* hold.
DecodeWfFile == \E f \in WfFiles, wrap \in BOOLEAN : DecodeStart(f, wrap)

NextLegacy == DecodeWfFile \/ DecodeStep \/ DecodeConsume

SpecLegacy == InitDec /\ [][NextLegacy]_vars

----------------------------------------------------------------------------
(* Properties.                                                            *)

Range(s) == {s[i] : i \in 1..Len(s)}

\* Whether s holds a backslash followed by 'x' and two hexadecimal digits.
HasHexLiteral(s) ==
    \E i \in 1..(Len(s) - 3) :
        s[i] = BACKSLASH /\ s[i + 1] = Ch_x /\ IsXDigit(s[i + 2]) /\ IsXDigit(s[i + 3])

\* C2: unescape(escape(s)) = s for every string s without a literal
\* backslash-x-hex-hex, the empty string, strings of spaces and strings that
\* end in a backslash included. (Strings are C strings: they hold no NUL.)
C2_UnescapeEscape ==
    (escPc = "unescaped" /\ ~HasHexLiteral(escIn)) => escOut = escIn

\* A string that ends in a backslash and holds a newline went through
\* escape, which changed it, and unescape.
C2_Witness ==
    /\ escPc = "unescaped"
    /\ escIn # <<>>
    /\ escIn[Len(escIn)] = BACKSLASH
    /\ LF \in Range(escIn)
    /\ ~HasHexLiteral(escIn)
    /\ escMid # escIn
    /\ escOut = escIn

\* The header fields of a file as the format defines them, whatever the host.
MagicOf(bytes) == SubSeq(bytes, 25, 28)
VersionOf(bytes) == bytes[23]
EndiannessOf(bytes) == bytes[24]

\* The declared file size, read in the declared endianness.
DeclaredFileSize(bytes) ==
    IF EndiannessOf(bytes) = Ch_B
    THEN U32FromBytes(bytes[1], bytes[2], bytes[3], bytes[4])
    ELSE U32FromBytes(bytes[4], bytes[3], bytes[2], bytes[1])

\* The declared offset table lies inside the declared file (exact sum).
DeclaredDoffInside(bytes) ==
    LET F(k) == IF EndiannessOf(bytes) = Ch_B
                THEN U32FromBytes(bytes[k], bytes[k + 1], bytes[k + 2], bytes[k + 3])
                ELSE U32FromBytes(bytes[k + 3], bytes[k + 2], bytes[k + 1], bytes[k])
        off == F(5)
        len == F(9)
        fs == DeclaredFileSize(bytes)
        lo == 32 + off[2] + len[2]
        hi == off[1] + len[1] + (lo \div 65536)
    IN hi < fs[1] \/ (hi = fs[1] /\ (lo % 65536) <= fs[2])

LoadedFile == op.kind = "loadMST" /\ op.reached /\ Len(op.bytes) >= 32

TableIsEmpty == m_vStrTbl = <<>> /\ m_vStrLkup = EmptyMap /\ m_mapPlaceholder = EmptyMap

\* C3: loadMST returns an error and leaves zero entries when the bytes at
\* 0x18 are not "BINA" (on either host), or the version byte is not '1', or
\* the endianness byte is neither 'B' nor 'L', whatever else the file holds.
C3_HeaderRejected ==
    (/\ LoadedFile
     /\ \/ MagicOf(op.bytes) # <<66, 73, 78, 65>>
        \/ VersionOf(op.bytes) # 49
        \/ EndiannessOf(op.bytes) \notin {66, 76})
    => (ret < 0 /\ TableIsEmpty)

\* An object that held a table (the one saveXML printed) loaded a
\* little-endian file whose magic is "ANIB", the tag byte-swapped, on a
\* little-endian host: the load failed and the table is empty.
C3_Witness ==
    /\ LoadedFile
    /\ snap.xml.obj.tbl # <<>>
    /\ ~hostIsBigEndian
    /\ MagicOf(op.bytes) = <<65, 78, 73, 66>>
    /\ VersionOf(op.bytes) = 49
    /\ EndiannessOf(op.bytes) = 76
    /\ DeclaredFileSize(op.bytes) = U32(Len(op.bytes))
    /\ ret < 0
    /\ TableIsEmpty

HeaderIdOk(bytes) ==
    /\ MagicOf(bytes) = <<66, 73, 78, 65>>
    /\ VersionOf(bytes) = 49
    /\ EndiannessOf(bytes) \in {66, 76}

SizeOutOfRange(fs) == U32Less(fs, U32(56)) \/ U32Less(U32(16777216), fs)

\* C4: loadMST rejects (error, zero entries) every file whose declared size
\* is below 56 or above 16777216, and rejects none for its size when the
\* declared size is within [56, 16777216]: such a file is refused only by
\* another check, and is loaded when its offset table fits and all declared
\* bytes are there.
C4_FileSizeBounds ==
    (LoadedFile /\ HeaderIdOk(op.bytes)) =>
        LET fs == DeclaredFileSize(op.bytes) IN
        IF SizeOutOfRange(fs)
        THEN ret < 0 /\ TableIsEmpty /\ op.at \in {"tooSmall", "tooBig"}
        ELSE /\ op.at \notin {"tooSmall", "tooBig"}
             /\ (DeclaredDoffInside(op.bytes) /\ U32Nat(fs) <= Len(op.bytes)) => ret = 0

\* A file that declares exactly 56 bytes was loaded, and the object had held
\* a table before.
C4_Witness ==
    /\ LoadedFile
    /\ HeaderIdOk(op.bytes)
    /\ snap.xml.obj.tbl # <<>>
    /\ DeclaredFileSize(op.bytes) = U32(56)
    /\ ret = 0

\* A file that declares 16777217 bytes was refused.
C4_WitnessTooBig ==
    /\ LoadedFile
    /\ HeaderIdOk(op.bytes)
    /\ DeclaredFileSize(op.bytes) = U32(16777217)
    /\ ret < 0
    /\ TableIsEmpty

\* The round trip of C1: a table loadMST produced was printed by saveXML and
\* the document loaded again.
RoundTripDone ==
    /\ op.kind = "reloadXML"
    /\ snap.xml.src.kind = "loadMST"
    /\ snap.xml.src.ret = 0

\* C1: for every table T a successful loadMST produced, saveXML(T) and then
\* loadXML of the output succeeds and yields the same table name and the same
\* sequence of (name, text) entries.
C1_RoundTrip ==
    RoundTripDone =>
        /\ ret = 0
        /\ m_name = snap.xml.obj.name
        /\ m_vStrTbl = snap.xml.obj.tbl

\* Counting the strings of a name blob: s starts at position p of blob.
StringAt(blob, p, s) ==
    /\ p = 1 \/ blob[p - 1] = NUL
    /\ p + Len(s) <= Len(blob)
    /\ SubSeq(blob, p, p + Len(s) - 1) = s
    /\ blob[p + Len(s)] = NUL

CopiesIn(blob, s) == Cardinality({p \in 1..Len(blob) : StringAt(blob, p, s)})

\* The bytes of field k (0: name, 1: text, 2: placeholder) of record idx of
\* an MST file.
RecordField(bytes, idx, k) ==
    LET p == 32 + 12 + 12 * idx + 4 * k IN SubSeq(bytes, p + 1, p + 4)

SavedMST == op.kind = "saveMST" /\ op.opened

\* How many times name s is used by the table: as table name, entry name or
\* placeholder.
UsesOf(s) ==
    (IF m_name = s THEN 1 ELSE 0)
    + Cardinality({i \in 1..Len(m_vStrTbl) : m_vStrTbl[i].first = s})
    + Cardinality({k \in DOMAIN m_mapPlaceholder : m_mapPlaceholder[k] = s})

\* C5: in the file saveMST writes, a non-empty name that two or more entries
\* carry, or that an entry or placeholder shares with the table name or an
\* earlier name or placeholder, is in the name blob exactly once, and the
\* name-offset fields of all records with that name are equal.
C5_NamesDeduplicated ==
    (SavedMST /\ ret = 0 /\ outMst.exists) =>
        \A i \in 1..Len(m_vStrTbl) :
            LET s == m_vStrTbl[i].first IN
            (s # <<>> /\ UsesOf(s) >= 2) =>
                /\ CopiesIn(outMst.vMsgNames, s) = 1
                /\ \A j \in 1..Len(m_vStrTbl) :
                      m_vStrTbl[j].first = s =>
                         RecordField(outMst.bytes, j - 1, 0) = RecordField(outMst.bytes, i - 1, 0)

\* C10: saveMST succeeds on a table with an entry of non-empty name and empty
\* text (all names being non-empty): the record of that entry carries text
\* offset 0 and every entry has its record.
C10_EmptyTextSaved ==
    (/\ SavedMST
     /\ \A i \in 1..Len(m_vStrTbl) : m_vStrTbl[i].first # <<>>
     /\ \E i \in 1..Len(m_vStrTbl) : m_vStrTbl[i].second = <<>>)
    => /\ fault = "none"
       /\ ret = 0
       /\ outMst.exists
       /\ Len(outMst.offs) = Len(m_vStrTbl)
       /\ \A i \in 1..Len(m_vStrTbl) :
             m_vStrTbl[i].second = <<>> => RecordField(outMst.bytes, i - 1, 1) = <<0, 0, 0, 0>>

\* The valid message elements of a document and the table index each names.
ValidMsg(m) == m.index.kind = "ok" /\ m.name.has /\ m.name.val # <<>>
ValidAt(doc) == {j \in 1..Len(doc.msgs) : ValidMsg(doc.msgs[j])}
IndexOf(doc, j) == U32Nat(doc.msgs[j].index.val)
Max(S) == CHOOSE x \in S : \A y \in S : y <= x
LastAt(doc, i) == Max({j \in ValidAt(doc) : IndexOf(doc, j) = i})
DupDiagsAt(errs, i) ==
    Cardinality({k \in 1..Len(errs) : errs[k].kind = "dupIndex" /\ errs[k].index = U32(i)})

LoadedDoc == op.kind = "loadXML" /\ op.reached

\* C7: in loadXML, when several valid message elements carry the same index
\* i, entries[i] ends with the name and text of the last of them, the entry
\* count is what the highest index makes it, the load succeeds, and the sink
\* receives one duplicate-index diagnostic for each repeat.
C7_DuplicateIndex ==
    (LoadedDoc /\ op.doc \in MsgDocs) =>
        LET doc == op.doc
            used == {IndexOf(doc, j) : j \in ValidAt(doc)}
        IN
        /\ ret = 0
        /\ fault = "none"
        /\ Len(m_vStrTbl) = IF used = {} THEN 0 ELSE Max(used) + 1
        /\ \A i \in used :
              LET last == doc.msgs[LastAt(doc, i)]
                  n == Cardinality({j \in ValidAt(doc) : IndexOf(doc, j) = i})
              IN /\ m_vStrTbl[i + 1].first = last.name.val
                 /\ m_vStrTbl[i + 1].second = (IF last.text.has THEN last.text.val ELSE <<>>)
                 /\ op.sink => DupDiagsAt(vecErrs, i) = n - 1
        /\ ~op.sink => vecErrs = <<>>

\* A document with three valid messages at index 1, given a sink: two
\* diagnostics, two entries, the last message in entries[1].
C7_Witness ==
    /\ LoadedDoc
    /\ op.sink
    /\ Len(op.doc.msgs) = 3
    /\ \A j \in 1..3 : ValidMsg(op.doc.msgs[j]) /\ IndexOf(op.doc, j) = 1
    /\ op.doc.msgs[1].name.val # op.doc.msgs[3].name.val
    /\ DupDiagsAt(vecErrs, 1) = 2
    /\ Len(m_vStrTbl) = 2
    /\ m_vStrTbl[2].first = op.doc.msgs[3].name.val

\* C8: after a successful load, the name index maps every non-empty name an
\* entry carries to the entry written last with that name (loadMST: the
\* highest record index; loadXML: the last message in document order whose
\* name its entry still holds), and lookup by name returns that entry's text.
LastHolderMST(s) == Max({i \in 1..Len(m_vStrTbl) : m_vStrTbl[i].first = s}) - 1
LastHolderXML(doc, s) ==
    IndexOf(doc, Max({j \in ValidAt(doc) :
                        /\ doc.msgs[j].name.val = s
                        /\ m_vStrTbl[IndexOf(doc, j) + 1].first = s}))
LastHolder(s) ==
    IF op.kind = "loadMST" THEN LastHolderMST(s) ELSE LastHolderXML(op.doc, s)

C8_LastWriterWins ==
    (/\ op.kind \in {"loadMST", "loadXML", "reloadXML"}
     /\ op.reached
     /\ ret = 0
     /\ fault = "none")
    => \A i \in 1..Len(m_vStrTbl) :
          LET s == m_vStrTbl[i].first IN
          s # <<>> =>
            /\ s \in DOMAIN m_vStrLkup
            /\ m_vStrLkup[s] = LastHolder(s)
            /\ StrTextByName(m_vStrLkup, m_vStrTbl, s) = m_vStrTbl[LastHolder(s) + 1].second

\* A save was called with a usable argument (an open stream or a non-empty
\* filename) on a table with zero entries.
SaveOfEmptyTable ==
    /\ nOps' = nOps + 1
    /\ op'.kind \in {"saveMST", "saveXML"}
    /\ op'.how # "emptyname"
    /\ m_vStrTbl = <<>>

\* C6: saveMST and saveXML on a table with zero entries fail with -ENODATA
\* and write nothing; by filename, the file is neither created nor truncated.
C6_EmptyTableNotSaved ==
    [][SaveOfEmptyTable =>
        /\ ret' = -61
        /\ ~op'.opened
        /\ outMst' = outMst
        /\ outXml' = outXml]_vars

\* An MST file had been written, a later load emptied the table, and saveMST
\* by filename then returned -ENODATA: the file still holds its bytes.
C6_Witness ==
    /\ op.kind = "saveMST"
    /\ op.how = "file"
    /\ m_vStrTbl = <<>>
    /\ ret = -61
    /\ outMst.exists
    /\ outMst.bytes # <<>>

LoadCalled == op.kind \in {"loadMST", "loadXML"}

\* C9: after any sequence of loads the table name, entries, placeholders and
\* name index are those of the last input alone; when the last load failed,
\* for whatever reason, nothing of an earlier load remains.
C9_LastLoadOnly ==
    LoadCalled =>
        /\ ret # 0 => (m_name = <<>> /\ TableIsEmpty)
        /\ (op.reached /\ op.kind = "loadMST") =>
              Obj = LoadMSTResult(op.bytes, 0, hostIsBigEndian).obj
        /\ (op.reached /\ op.kind = "loadXML") =>
              Obj = LoadXMLResult(op.doc, op.sink).obj

\* A 32-bit field at byte offset pos of a file, read in the byte order the
\* endianness byte of its header names.
FieldAt(bytes, pos) ==
    IF EndiannessOf(bytes) = Ch_B
    THEN U32FromBytes(bytes[pos + 1], bytes[pos + 2], bytes[pos + 3], bytes[pos + 4])
    ELSE U32FromBytes(bytes[pos + 4], bytes[pos + 3], bytes[pos + 2], bytes[pos + 1])

\* Field k (0: name, 1: text, 2: placeholder) of record idx, as a number.
RecordOffset(bytes, idx, k) ==
    U32Nat(FieldAt(bytes, SIZEOF_MST_Header + SIZEOF_WTXT_Header
                          + SIZEOF_WTXT_MsgPointer * idx + 4 * k))

\* The NUL-terminated string s lies at offset off of the data region (the
\* part of the file that starts at the WTXT header).
CStringAtOffset(bytes, off, s) ==
    /\ SIZEOF_MST_Header + off + Len(s) + 1 <= Len(bytes)
    /\ SubSeq(bytes, SIZEOF_MST_Header + off + 1, SIZEOF_MST_Header + off + Len(s)) = s
    /\ bytes[SIZEOF_MST_Header + off + Len(s) + 1] = NUL

EmptyNamed == {i \in 1..Len(m_vStrTbl) : m_vStrTbl[i].first = <<>>}

\* C11: for an entry at index i whose name is empty (every text being
\* non-empty), saveMST succeeds, the name blob holds "XXX_MSG_<i>" with its
\* NUL, the names stored before it are intact, and the name-offset field of
\* record i points at the synthesized string.
C11_EmptyNameSynthesized ==
    (/\ SavedMST
     /\ EmptyNamed # {}
     /\ \A i \in 1..Len(m_vStrTbl) : m_vStrTbl[i].second # <<>>)
    => /\ fault = "none"
       /\ ret = 0
       /\ outMst.exists
       /\ \A i \in EmptyNamed :
             CStringAtOffset(outMst.bytes, RecordOffset(outMst.bytes, i - 1, 0),
                             XxxMsgName(i - 1))
       /\ \A i \in 1..Len(m_vStrTbl) \ EmptyNamed :
             CStringAtOffset(outMst.bytes, RecordOffset(outMst.bytes, i - 1, 0),
                             utf8_to_cpN(m_vStrTbl[i].first))

\* A saveMST that returned 0 and wrote its file.
SaveSucceeded == SavedMST /\ ret = 0 /\ fault = "none" /\ outMst.exists

\* The fields of the two headers of a file, in the byte order the header names.
FileSizeField(bytes) == FieldAt(bytes, 0)
DoffOffsetField(bytes) == FieldAt(bytes, 4)
DoffLengthField(bytes) == FieldAt(bytes, 8)
TblNameOffsetField(bytes) == FieldAt(bytes, SIZEOF_MST_Header + 4)
RecordCountField(bytes) == FieldAt(bytes, SIZEOF_MST_Header + 8)

\* File positions of the parts that follow the two headers, for n records
\* and a text blob of textLen bytes.
RecordsPos(n) == SIZEOF_MST_Header + SIZEOF_WTXT_Header
TextPos(n) == RecordsPos(n) + SIZEOF_WTXT_MsgPointer * n
NamePos(n, textLen) == TextPos(n) + textLen

\* The differential offset values saveMST computes for the table, before
\* padding: "AB", then "AAA" or "AB" for each entry, less the last value.
DiffPattern ==
    LET all == <<Ch_A, Ch_B>>
               \o Flatten([i \in 1..Len(m_vStrTbl) |->
                              IF (i - 1) \in DOMAIN m_mapPlaceholder
                              THEN <<Ch_A, Ch_A, Ch_A>> ELSE <<Ch_A, Ch_B>>], 1)
    IN SubSeq(all, 1, Len(all) - 1)

\* The number of zero bytes at the end of a blob: for the name blob, the
\* terminator of its last string and the padding after it.
TrailingZeros(blob) ==
    Cardinality({k \in 1..Len(blob) : \A j \in k..Len(blob) : blob[j] = 0})

\* The parts of the file in order, the alignment of the differential offset
\* table and the file size of the header (all of C12 but the record count
\* of the sub-header).
LayoutOf(b, n, text, names, doff) ==
    /\ Len(b) = NamePos(n, 2 * Len(text)) + Len(names) + Len(doff)
    /\ SubSeq(b, SIZEOF_MST_Header + 1, SIZEOF_MST_Header + 4) = MagicWTXT
    /\ SubSeq(b, TextPos(n) + 1, NamePos(n, 2 * Len(text)))
          = Flatten([i \in 1..Len(text) |-> MemBytes16(text[i], hostIsBigEndian)], 1)
    /\ SubSeq(b, NamePos(n, 2 * Len(text)) + 1, NamePos(n, 2 * Len(text)) + Len(names)) = names
    /\ SubSeq(b, Len(b) - Len(doff) + 1, Len(b)) = doff
    /\ DoffOffsetField(b)[2] % 4 = 0
    /\ DoffLengthField(b)[2] % 4 = 0
    /\ DoffLengthField(b) = U32(Len(doff))
    /\ U32(SIZEOF_MST_Header + U32Nat(DoffOffsetField(b))) = U32(Len(b) - Len(doff))
    /\ FileSizeField(b) = U32(Len(b))
    /\ Len(doff) - Len(DiffPattern) \in 0..3
    /\ SubSeq(doff, 1, Len(DiffPattern)) = DiffPattern
    /\ \A k \in (Len(DiffPattern) + 1)..Len(doff) : doff[k] = 0
    /\ TrailingZeros(names) \in 1..4

\* C12: the bytes of every successful saveMST are the 32-byte header, the
\* 12-byte sub-header, n records (n the entry count and the record count of
\* the sub-header), the text blob, the name blob and the differential offset
\* table; offset and length of that table are multiples of 4 with zero
\* padding, the table begins at 32 + its offset, and the file size of the
\* header is the number of bytes written.
C12_FileLayout ==
    SaveSucceeded =>
        /\ Len(outMst.offs) = Len(m_vStrTbl)
        /\ RecordCountField(outMst.bytes) = U32(Len(m_vStrTbl))
        /\ LayoutOf(outMst.bytes, Len(m_vStrTbl), outMst.vMsgText, outMst.vMsgNames,
                    outMst.vDiffOffTbl)

\* The same without the record count of the sub-header.
LayoutButCount ==
    SaveSucceeded =>
        /\ Len(outMst.offs) = Len(m_vStrTbl)
        /\ LayoutOf(outMst.bytes, Len(m_vStrTbl), outMst.vMsgText, outMst.vMsgNames,
                    outMst.vDiffOffTbl)

\* The record count of the sub-header of a big-endian file.
CountOfBigEndianFile ==
    (SaveSucceeded /\ m_isBigEndian) => RecordCountField(outMst.bytes) = U32(Len(m_vStrTbl))

\* The UTF-16 code unit at byte offset pos of a file, in the byte order the
\* header names.
UnitAt(bytes, pos) ==
    IF EndiannessOf(bytes) = Ch_B THEN bytes[pos + 1] * 256 + bytes[pos + 2]
    ELSE bytes[pos + 2] * 256 + bytes[pos + 1]

\* The NUL-terminated UTF-16 text lies at offset off of the data region.
TextAtOffset(bytes, off, text) ==
    /\ SIZEOF_MST_Header + off + 2 * Len(text) + 2 <= Len(bytes)
    /\ \A k \in 1..Len(text) : UnitAt(bytes, SIZEOF_MST_Header + off + 2 * (k - 1)) = text[k]
    /\ UnitAt(bytes, SIZEOF_MST_Header + off + 2 * Len(text)) = 0

\* Offsets (from the sub-header) of the text blob and of the name blob of
\* the file written.
TextBase == SIZEOF_WTXT_Header + SIZEOF_WTXT_MsgPointer * Len(outMst.offs)
NameBase == TextBase + 2 * Len(outMst.vMsgText)
InTextBlob(off) == off >= TextBase /\ off < NameBase
InNameBlob(off) == off >= NameBase /\ off < NameBase + Len(outMst.vMsgNames)

\* The three offsets of record i (counted from 1) point at the encoded name,
\* the text and the encoded placeholder of entry i.
RecordPointsAtEntry(i) ==
    /\ InNameBlob(RecordOffset(outMst.bytes, i - 1, 0))
    /\ CStringAtOffset(outMst.bytes, RecordOffset(outMst.bytes, i - 1, 0),
                       utf8_to_cpN(m_vStrTbl[i].first))
    /\ InTextBlob(RecordOffset(outMst.bytes, i - 1, 1))
    /\ TextAtOffset(outMst.bytes, RecordOffset(outMst.bytes, i - 1, 1), m_vStrTbl[i].second)
    /\ (RecordOffset(outMst.bytes, i - 1, 2) = 0) <=> ((i - 1) \notin DOMAIN m_mapPlaceholder)
    /\ (i - 1) \in DOMAIN m_mapPlaceholder =>
          /\ InNameBlob(RecordOffset(outMst.bytes, i - 1, 2))
          /\ CStringAtOffset(outMst.bytes, RecordOffset(outMst.bytes, i - 1, 2),
                             utf8_to_cpN(m_mapPlaceholder[i - 1]))

\* C13: in the file of a successful saveMST, the name offset of every record
\* i is the position in the name blob of the NUL-terminated encoded name of
\* entry i, the text offset the position in the text blob of its
\* NUL-terminated UTF-16 text, and the placeholder offset is 0 exactly when
\* index i has no placeholder, else the position in the name blob of the
\* encoded placeholder.
C13_RecordOffsets ==
    SaveSucceeded => \A i \in 1..Len(m_vStrTbl) : RecordPointsAtEntry(i)

\* The value field k of record idx is to carry: the offset the entry loop
\* computed, counted from the sub-header, or 0 for an absent placeholder.
RecordValue(idx, k) ==
    LET r == outMst.offs[idx + 1] IN
    CASE k = 0 -> U32(NameBase + U32Nat(r.name_offset))
      [] k = 1 -> U32(TextBase + U32Nat(r.text_offset))
      [] k = 2 -> IF r.placeholder_offset = INVALID_OFFSET THEN U32(0)
                  ELSE U32(NameBase + U32Nat(r.placeholder_offset))

\* The fields of the header and of the records are in the byte order of the
\* endianness byte.
HeaderAndRecordsInFileOrder ==
    SaveSucceeded =>
        /\ EndiannessOf(outMst.bytes) = (IF m_isBigEndian THEN Ch_B ELSE Ch_L)
        /\ FileSizeField(outMst.bytes) = U32(Len(outMst.bytes))
        /\ DoffOffsetField(outMst.bytes) = U32(NameBase + Len(outMst.vMsgNames))
        /\ DoffLengthField(outMst.bytes) = U32(Len(outMst.vDiffOffTbl))
        /\ \A i \in 1..Len(outMst.offs), k \in 0..2 :
              FieldAt(outMst.bytes, TextPos(0) + SIZEOF_WTXT_MsgPointer * (i - 1) + 4 * k)
                 = RecordValue(i - 1, k)

\* C14: in a file written by saveMST the file size, the offset and length of
\* the differential offset table, the table-name offset and record count of
\* the sub-header and the three offsets of every record are in the byte
\* order the endianness byte names, for big-endian and little-endian tables.
C14_FieldByteOrder ==
    /\ HeaderAndRecordsInFileOrder
    /\ SaveSucceeded =>
        /\ TblNameOffsetField(outMst.bytes) = U32(NameBase)
        /\ RecordCountField(outMst.bytes) = U32(Len(m_vStrTbl))

\* A well-formed file was loaded.
LoadedWf == op.kind = "loadMST" /\ op.reached /\ op.bytes \in WfFiles

\* C15: loadMST of a well-formed file whose sub-header declares n records
\* and whose record array holds n records with all pointers in bounds yields
\* exactly n entries, entry i from record i; the bytes after the record
\* array are not taken for records.
C15_RecordCountEntries ==
    LoadedWf =>
        /\ ret = 0
        /\ U32(Len(m_vStrTbl)) = RecordCountField(op.bytes)
        /\ \A i \in 1..Len(m_vStrTbl) :
              /\ CStringAtOffset(op.bytes, RecordOffset(op.bytes, i - 1, 0), m_vStrTbl[i].first)
              /\ TextAtOffset(op.bytes, RecordOffset(op.bytes, i - 1, 1), m_vStrTbl[i].second)

\* The differential offset table of a file: the bytes the header's offset
\* and length fields delimit.
DoffBytes(bytes) ==
    SubSeq(bytes, SIZEOF_MST_Header + U32Nat(DoffOffsetField(bytes)) + 1,
           SIZEOF_MST_Header + U32Nat(DoffOffsetField(bytes)) + U32Nat(DoffLengthField(bytes)))

\* saveMST wrote the table that the last load, a successful loadMST, left.
SavedLoadedMST == SaveSucceeded /\ src.kind = "loadMST" /\ src.ret = 0

\* The file written carries the differential offset table of the file loaded.
DoffReEmitted == SavedLoadedMST => DoffBytes(outMst.bytes) = DoffBytes(src.bytes)

\* C16: loadMST keeps the raw differential offset table of the file in the
\* table object, and a saveMST of that table, not modified in between,
\* writes exactly those bytes as its differential offset table.
C16_DiffOffTblPreserved ==
    /\ (op.kind = "loadMST" /\ op.reached /\ ret = 0) => m_vDiffOffTbl = DoffBytes(op.bytes)
    /\ DoffReEmitted

\* The decode loop is over: the program ended or reached the code after it.
DecodeOver == decPc \in {"decoded", "exit"} /\ mst_data # <<>>

\* Whether cursor from, advanced by diff, leaves 4 bytes before the end of
\* the data region (exact arithmetic).
FitsRegion(from, diff) ==
    U32IsSmall(diff) /\ from + U32Nat(diff) + 4 <= DecRegionLen(mst_data)

\* Every value the loop read lies inside the data region, and the loop ended
\* with the bounds error exactly at the first difference that does not fit.
DecodeReadsInside ==
    \A k \in 1..Len(decSteps) :
        /\ decSteps[k].read => (decSteps[k].to >= 0
                                /\ decSteps[k].to + 4 <= DecRegionLen(mst_data))
        /\ decSteps[k].read <=> FitsRegion(decSteps[k].from, decSteps[k].diff)
        /\ ~decSteps[k].read => (k = Len(decSteps) /\ decPc = "exit" /\ ret = EXIT_FAILURE)

\* The code after the loop reads only elements that vMsgOffsets holds.
ConsumerReadsInside == \A k \in 1..Len(idxRead) : idxRead[k] < Len(vMsgOffsets)

\* C17: for every differential offset table and data region, every 32-bit
\* value the decode loop reads lies inside the data region, the loop stops
\* with a bounds error as soon as the advanced cursor plus 4 bytes passes the
\* end of the region, and the code that consumes the decoded offsets reads no
\* element outside the decoded sequence, also when no offset was decoded.
C17_DecodeInBounds == DecodeReadsInside /\ ConsumerReadsInside

\* The same for the loop alone, where addresses do not wrap.
DecodeReadsInsideFlat == ~decWrap => DecodeReadsInside

\* The decode loop ends, whatever the table holds: every pass that stays in
\* the loop moves pOffsetTbl forward, and pOffsetTbl never passes the end of
\* the table.
DecodeProgress ==
    [][(decPc = "loop" /\ decPc' = "loop") =>
          (pOffsetTbl' > pOffsetTbl
           /\ pOffsetTbl' <= Len(DecTable(mst_data, hostIsBigEndian)))]_vars

\* saveXML wrote a table and loadXML read the document back.
ReloadedXML == op.kind = "reloadXML" /\ op.reached

\* C18: saveXML followed by loadXML preserves the placeholder map: the same
\* indices have a placeholder and each placeholder string is the original,
\* also when it holds a backslash, a newline or a form feed or consists of
\* spaces.
C18_PlaceholdersPreserved ==
    ReloadedXML => m_mapPlaceholder = snap.xml.obj.plc

\* The table saveXML wrote has a name, and so has every entry.
AllNamed(obj) == obj.name # <<>> /\ \A i \in 1..Len(obj.tbl) : obj.tbl[i].first # <<>>

\* No placeholder of the table is changed by escape().
PlainPlaceholders(obj) == \A k \in DOMAIN obj.plc : Escape(obj.plc[k]) = obj.plc[k]

\* The same for tables whose names are not empty.
PlaceholdersPreservedNamed ==
    (ReloadedXML /\ AllNamed(snap.xml.obj)) => m_mapPlaceholder = snap.xml.obj.plc

\* The same for tables whose names are not empty and whose placeholders
\* escape() leaves as they are.
PlainPlaceholdersPreserved ==
    (ReloadedXML /\ AllNamed(snap.xml.obj) /\ PlainPlaceholders(snap.xml.obj))
    => m_mapPlaceholder = snap.xml.obj.plc

\* The positions of the data region the decode loop of mst06.cpp visits for
\* the differential offset table tbl, from code at on with the cursor at cur:
\* each difference is added to the cursor until a terminator, the end of
\* the table or a cursor out of range.
RECURSIVE DecodeVisits(_, _, _, _)
DecodeVisits(tbl, at, cur, regionLen) ==
    IF ~(at < Len(tbl)) \/ OffsetDiff(tbl, at).stop THEN <<>>
    ELSE IF AdvanceCursor(cur, OffsetDiff(tbl, at).diff, regionLen, FALSE).range THEN <<>>
    ELSE <<AdvanceCursor(cur, OffsetDiff(tbl, at).diff, regionLen, FALSE).pTbl>>
         \o DecodeVisits(tbl, at + OffsetDiff(tbl, at).used,
                         AdvanceCursor(cur, OffsetDiff(tbl, at).diff, regionLen, FALSE).pTbl,
                         regionLen)

\* The positions visited in the file saveMST wrote, the cursor starting at
\* the first byte of the sub-header.
SavedVisits ==
    DecodeVisits(DoffBytes(outMst.bytes), 0, 0, Len(outMst.bytes) - SIZEOF_MST_Header)

\* The offset fields of the table in file order: the table-name offset of
\* the sub-header, then name, text and (for an entry with a placeholder)
\* placeholder field of each record.
OffsetFields ==
    <<4>> \o Flatten([i \in 1..Len(m_vStrTbl) |->
                         <<SIZEOF_WTXT_Header + SIZEOF_WTXT_MsgPointer * (i - 1),
                           SIZEOF_WTXT_Header + SIZEOF_WTXT_MsgPointer * (i - 1) + 4>>
                         \o (IF (i - 1) \in DOMAIN m_mapPlaceholder
                             THEN <<SIZEOF_WTXT_Header + SIZEOF_WTXT_MsgPointer * (i - 1) + 8>>
                             ELSE <<>>)], 1)

\* C19: decoding the differential offset table saveMST wrote, the cursor
\* starting at the first byte of the sub-header ('A' adds 4, 'B' adds 8, a
\* zero byte or the end of the table stops), visits the table-name offset
\* field of the sub-header and then, for each entry in order, the name field
\* and the text field of its record and the placeholder field exactly when
\* the entry has a placeholder; every position visited lies inside the
\* sub-header or the record array and holds a non-zero offset.
C19_DiffOffTblVisitsFields ==
    SaveSucceeded
    => /\ SavedVisits = OffsetFields
       /\ \A k \in 1..Len(SavedVisits) :
             /\ SavedVisits[k] + 4 <= SIZEOF_WTXT_Header
                                      + SIZEOF_WTXT_MsgPointer * Len(m_vStrTbl)
             /\ FieldAt(outMst.bytes, SIZEOF_MST_Header + SavedVisits[k]) # U32(0)

\* A table saved whose first entry has a placeholder and whose second entry
\* has none.
C19_Witness ==
    /\ SaveSucceeded
    /\ Len(m_vStrTbl) >= 2
    /\ DOMAIN m_mapPlaceholder = {0}
    /\ Len(SavedVisits) = 2 * Len(m_vStrTbl) + 2

\* The differential offset table of the file the decoder runs on.
DecTbl == DecTable(mst_data, hostIsBigEndian)

\* The number of bytes a code takes, by the top two bits of its first byte.
FormBytes(b0) == CASE b0 \div 64 = 0 -> 0
                   [] b0 \div 64 = 1 -> 1
                   [] b0 \div 64 = 2 -> 2
                   [] b0 \div 64 = 3 -> 4

\* The difference the code at index at of tbl stands for, all its bytes
\* being in the table: the low six bits of the first byte and the bytes that
\* follow, shifted left by two, modulo 2^32.
FormDelta(tbl, at) ==
    CASE tbl[at + 1] \div 64 = 1 -> U32((tbl[at + 1] % 64) * 4)
      [] tbl[at + 1] \div 64 = 2 -> U32((tbl[at + 1] % 64) * 1024 + tbl[at + 2] * 4)
      [] tbl[at + 1] \div 64 = 3 ->
            U32Add(<<(tbl[at + 1] % 64) * 1024 + tbl[at + 2] * 4, 0>>,
                   U32(tbl[at + 3] * 1024 + tbl[at + 4] * 4))

\* The code at index at of tbl lies in the table with all its bytes.
CodeAvailable(tbl, at) == at + FormBytes(tbl[at + 1]) <= Len(tbl)

\* Step k of the decode loop took the code at its position with the number
\* of bytes and the difference of its form, moved the cursor by the
\* difference (modulo 2^32 where addresses are 32 bits wide), and began
\* where the step before it had ended.
StepAsEncoded(k) ==
    /\ FormBytes(DecTbl[decSteps[k].at + 1]) = decSteps[k].used
    /\ decSteps[k].used > 0
    /\ CodeAvailable(DecTbl, decSteps[k].at)
    /\ decSteps[k].diff = FormDelta(DecTbl, decSteps[k].at)
    /\ decSteps[k].read =>
          IF U32IsSmall(decSteps[k].diff)
          THEN decSteps[k].to = decSteps[k].from + U32Nat(decSteps[k].diff)
          ELSE decWrap /\ decSteps[k].to = decSteps[k].from - U32Nat(U32Neg(decSteps[k].diff))
    /\ decSteps[k].at = IF k = 1 THEN 0 ELSE decSteps[k - 1].at + decSteps[k - 1].used
    /\ k > 1 => decSteps[k].from = decSteps[k - 1].to

\* Where the next step of the loop begins.
NextCode == IF decSteps = <<>> THEN 0
            ELSE decSteps[Len(decSteps)].at + decSteps[Len(decSteps)].used

\* C20: each step of the offset decoder looks at the top two bits of the
\* current byte b0: 00 stops the decoding without a value; 01 takes 1 byte
\* and gives (b0 & 0x3F) << 2; 10 takes 2 bytes and gives
\* ((b0 & 0x3F) << 10) | (b1 << 2); 11 takes 4 bytes and gives
\* ((b0 & 0x3F) << 26) | (b1 << 18) | (b2 << 10) | (b3 << 2) modulo 2^32; the
\* cursor into the data region advances by that difference and the next step
\* begins at the byte after the bytes taken. The loop thus stops without a
\* bounds error only at the end of the table, at a byte whose top bits are
\* 00, or at a code whose bytes are not all in the table.
C20_DecodeStepForms ==
    /\ \A k \in 1..Len(decSteps) : StepAsEncoded(k)
    /\ decPc = "decoded"
       => \/ NextCode = Len(DecTbl)
          \/ FormBytes(DecTbl[NextCode + 1]) = 0
          \/ ~CodeAvailable(DecTbl, NextCode)

\* The same with the test the loop makes: a two-byte or four-byte code is
\* taken only when at least one more byte of the table follows it.
DecodeStepFormsAsCoded ==
    /\ \A k \in 1..Len(decSteps) : StepAsEncoded(k)
    /\ decPc = "decoded"
       => \/ NextCode = Len(DecTbl)
          \/ FormBytes(DecTbl[NextCode + 1]) = 0
          \/ /\ FormBytes(DecTbl[NextCode + 1]) > 1
             /\ NextCode + FormBytes(DecTbl[NextCode + 1]) >= Len(DecTbl)

\* The decode loop has stopped, without a bounds error, at a two-byte or
\* four-byte code.
StoppedAtLongCode ==
    /\ decPc = "decoded"
    /\ NextCode < Len(DecTbl)
    /\ FormBytes(DecTbl[NextCode + 1]) > 1

\* C21: a two-byte form is decoded whenever its two bytes lie inside the
\* differential offset table and is treated as a terminator only when fewer
\* than 2 bytes remain; a four-byte form is decoded whenever at least 4
\* bytes remain and is a terminator only when fewer than 4 remain.
C21_LongFormsDecodedWhenAvailable ==
    /\ StoppedAtLongCode => ~CodeAvailable(DecTbl, NextCode)
    /\ \A k \in 1..Len(decSteps) :
          decSteps[k].used > 1 => CodeAvailable(DecTbl, decSteps[k].at)

\* What the loop does: a long form is a terminator exactly when no byte of
\* the table follows its last byte.
LongFormsNeedOneMoreByte ==
    /\ StoppedAtLongCode => NextCode + FormBytes(DecTbl[NextCode + 1]) >= Len(DecTbl)
    /\ \A k \in 1..Len(decSteps) :
          decSteps[k].used > 1 => decSteps[k].at + decSteps[k].used < Len(DecTbl)

\* The decoder ran to its end: the code after the decode loop has built
\* vStrTbl.
Consumed == decPc = "exit" /\ idxRead # <<>> /\ fault = "none"

\* vMsgOffsets[k], as a position of the file buffer.
OffsetPos(k) == SIZEOF_MST_Header + U32Nat(vMsgOffsets[k + 1])

\* The value of i the loop goes on with after the entry built at i.
NextPairAt(i) == IF U32Less(vMsgOffsets[i + 2], vMsgOffsets[1]) THEN i + 2 ELSE i + 1

\* Where the pairing stopped: behind the last entry built.
PairingEnd == IF msgAt = <<>> THEN 1 ELSE NextPairAt(msgAt[Len(msgAt)])

\* C22: when the decoded offsets offsets[1..] are paired into entries, an
\* offset in the text position whose value is >= offsets[0] gives an entry
\* with its name and empty text, and that offset is then the name offset of
\* the next entry; otherwise the entry takes the text at that offset and the
\* pairing goes on two offsets further.
C22_PairingOfOffsets ==
    Consumed =>
       /\ Len(msgAt) = Len(vStrTbl)
       /\ \A k \in 1..Len(vStrTbl) :
             /\ msgAt[k] = IF k = 1 THEN 1 ELSE NextPairAt(msgAt[k - 1])
             /\ msgAt[k] + 1 < Len(vMsgOffsets)
             /\ vStrTbl[k].first = CStrAt(mst_data, Len(mst_data), OffsetPos(msgAt[k]))
             /\ vStrTbl[k].second
                   = IF U32Less(vMsgOffsets[msgAt[k] + 2], vMsgOffsets[1])
                     THEN LegacyText(mst_data, Len(mst_data), OffsetPos(msgAt[k] + 1),
                                     0, hostIsBigEndian)
                     ELSE <<>>
       /\ \/ ~(PairingEnd + 1 < Len(vMsgOffsets))
          \/ PastEnd(vMsgOffsets[PairingEnd + 1], SIZEOF_MST_Header, Len(mst_data))
          \/ PastEnd(vMsgOffsets[PairingEnd + 2], SIZEOF_MST_Header, Len(mst_data))

\* A file of two records, the first with a placeholder: the decoder builds
\* the first entry with its text, an entry without text named by the
\* placeholder, and the second entry from the offset that was in the text
\* position.
C22_Witness ==
    /\ Consumed
    /\ Len(vStrTbl) >= 3
    /\ vStrTbl[1].second # <<>>
    /\ msgAt[2] = 3 /\ vStrTbl[2].second = <<>>
    /\ msgAt[3] = 4 /\ vStrTbl[3].second # <<>>

\* loadMST read the file past its header checks and ran the record loop.
RanRecordLoop == op.kind = "loadMST" /\ op.reached /\ op.at = "done"

\* Field k (0: name, 1: text, 2: placeholder) of record idx of the file, in
\* the byte order of the file.
RecordPtr(bytes, idx, k) ==
    FieldAt(bytes, SIZEOF_MST_Header + SIZEOF_WTXT_Header + SIZEOF_WTXT_MsgPointer * idx + 4 * k)

\* A pointer of record idx points at or beyond the end of the file buffer.
RecordBad(bytes, idx) ==
    \/ PastEnd(RecordPtr(bytes, idx, 0), SIZEOF_MST_Header, Len(bytes))
    \/ PastEnd(RecordPtr(bytes, idx, 1), SIZEOF_MST_Header, Len(bytes))
    \/ /\ RecordPtr(bytes, idx, 2) # U32(0)
       /\ PastEnd(RecordPtr(bytes, idx, 2), SIZEOF_MST_Header, Len(bytes))

\* The records of the record array (as many as the sub-header counts) that
\* are the first with a pointer out of bounds: one record or none.
FirstBad(bytes) ==
    {k \in 0..(U32Nat(RecordCountField(bytes)) - 1) :
        RecordBad(bytes, k) /\ \A j \in 0..(k - 1) : ~RecordBad(bytes, j)}

\* Entry idx of the table is what record idx of the file points at.
EntryOfRecord(bytes, idx) ==
    /\ m_vStrTbl[idx + 1].first
          = cpN_to_utf8(CStrAt(bytes, Len(bytes),
                               SIZEOF_MST_Header + U32Nat(RecordPtr(bytes, idx, 0))))
    /\ \E g \in Garbage :
          m_vStrTbl[idx + 1].second
             = TextAt(bytes, Len(bytes), SIZEOF_MST_Header + U32Nat(RecordPtr(bytes, idx, 1)),
                      g, hostIsBigEndian, m_isBigEndian)
    /\ m_vStrTbl[idx + 1].first \in DOMAIN m_vStrLkup
    /\ IF RecordPtr(bytes, idx, 2) = U32(0) THEN idx \notin DOMAIN m_mapPlaceholder
       ELSE /\ idx \in DOMAIN m_mapPlaceholder
            /\ m_mapPlaceholder[idx]
                  = cpN_to_utf8(CStrAt(bytes, Len(bytes),
                                       SIZEOF_MST_Header + U32Nat(RecordPtr(bytes, idx, 2))))

\* The table holds the entries of records 0..k-1 and nothing of record k or
\* a later record.
LoadedUpTo(bytes, k) ==
    /\ Len(m_vStrTbl) = k
    /\ \A i \in 0..(k - 1) : EntryOfRecord(bytes, i)
    /\ \A i \in DOMAIN m_mapPlaceholder : i < k
    /\ \A n \in DOMAIN m_vStrLkup : m_vStrLkup[n] < k

\* C23: in loadMST, if record k is the first record whose name offset, text
\* offset or non-zero placeholder offset points at or beyond the end of the
\* file buffer, the load returns success with exactly the entries of records
\* 0..k-1, their placeholders and name-index mappings, and nothing for record
\* k or a later record; an out-of-bounds table-name offset leaves the table
\* name empty and does not stop the records from being loaded.
C23_PartialLoad ==
    RanRecordLoop =>
       /\ \A k \in FirstBad(op.bytes) :
             ret = 0 /\ fault = "none" /\ LoadedUpTo(op.bytes, k)
       /\ PastEnd(TblNameOffsetField(op.bytes), SIZEOF_MST_Header, Len(op.bytes))
          => m_name = <<>> /\ (FirstBad(op.bytes) = {} => Len(m_vStrTbl) > 0)

\* The same where loadMST read no byte outside the file buffer.
PartialLoadInsideBuffer ==
    (RanRecordLoop /\ ~op.oob) => C23_PartialLoad

\* The same but for the process having died: what the table holds.
PartialLoadTable ==
    RanRecordLoop =>
       /\ \A k \in FirstBad(op.bytes) : ret = 0 /\ LoadedUpTo(op.bytes, k)
       /\ PastEnd(TblNameOffsetField(op.bytes), SIZEOF_MST_Header, Len(op.bytes))
          => m_name = <<>> /\ (FirstBad(op.bytes) = {} => Len(m_vStrTbl) > 0)

\* The diagnostics of the kinds the loop gives for an element it skips.
SkipDiags(errs) ==
    SelectSeq(errs, LAMBDA e : e.kind \in {"noIndex", "badIndex", "noName", "emptyName"})

\* The diagnostic for message element m, which the loop skips.
SkipDiagOf(m) ==
    [kind |-> CASE m.index.kind = "none" -> "noIndex"
                [] m.index.kind = "wrong" -> "badIndex"
                [] m.index.kind = "ok" /\ ~m.name.has -> "noName"
                [] m.index.kind = "ok" /\ m.name.has -> "emptyName",
     index |-> U32(0)]

\* The message elements of the document that are not valid, in order.
SkippedOf(doc) == SelectSeq(doc.msgs, LAMBDA m : ~ValidMsg(m))

\* What the message loop makes of the valid elements of the document alone.
StoredAlone(doc, sink) ==
    XmlMsgLoop([tbl |-> <<>>, lkup |-> EmptyMap, plc |-> EmptyMap, errs |-> <<>>, stop |-> ""],
               SelectSeq(doc.msgs, ValidMsg), 1, sink)

\* C24: in loadXML, a message element whose index attribute is missing or
\* not an unsigned integer, or whose name attribute is missing or empty,
\* changes nothing in entries, placeholders or the name index, adds exactly
\* one diagnostic when a sink is given, does not make the load fail, and
\* keeps no other message element from being loaded.
C24_InvalidMessageSkipped ==
    (LoadedDoc /\ op.doc \in SkipDocs) =>
        /\ ret = 0
        /\ fault = "none"
        /\ m_vStrTbl = StoredAlone(op.doc, op.sink).tbl
        /\ m_mapPlaceholder = StoredAlone(op.doc, op.sink).plc
        /\ m_vStrLkup = StoredAlone(op.doc, op.sink).lkup
        /\ SkipDiags(vecErrs)
              = IF op.sink
                THEN [k \in 1..Len(SkippedOf(op.doc)) |-> SkipDiagOf(SkippedOf(op.doc)[k])]
                ELSE <<>>
        /\ Len(vecErrs) = Len(SkipDiags(vecErrs)) + Len(StoredAlone(op.doc, op.sink).errs)

\* A document of a skipped element between two valid ones, loaded with a
\* sink: both valid elements are in the table and the sink holds one
\* diagnostic.
C24_Witness ==
    /\ LoadedDoc
    /\ op.doc \in SkipDocs
    /\ op.sink
    /\ Len(op.doc.msgs) = 3
    /\ ValidMsg(op.doc.msgs[1]) /\ ~ValidMsg(op.doc.msgs[2]) /\ ValidMsg(op.doc.msgs[3])
    /\ IndexOf(op.doc, 1) = 0 /\ IndexOf(op.doc, 3) = 1
    /\ Len(m_vStrTbl) = 2
    /\ Len(vecErrs) = 1

\* The string from position i on begins with backslash, 'x' and two
\* hexadecimal digits.
HexEscapeAt(str, i) ==
    /\ i + 3 <= Len(str)
    /\ str[i] = BACKSLASH /\ str[i + 1] = Ch_x
    /\ IsXDigit(str[i + 2]) /\ IsXDigit(str[i + 3])

\* What unescape is to give from position i on: the character of each
\* escape sequence it knows, and every other character as it is, the
\* backslash and the character after it of an unknown sequence included.
RECURSIVE PassThrough(_, _)
PassThrough(str, i) ==
    IF i > Len(str) THEN <<>>
    ELSE IF str[i] # BACKSLASH THEN <<str[i]>> \o PassThrough(str, i + 1)
    ELSE IF i = Len(str) THEN <<BACKSLASH>>
    ELSE IF str[i + 1] = BACKSLASH THEN <<BACKSLASH>> \o PassThrough(str, i + 2)
    ELSE IF str[i + 1] = Ch_n THEN <<LF>> \o PassThrough(str, i + 2)
    ELSE IF str[i + 1] = Ch_f THEN <<FF>> \o PassThrough(str, i + 2)
    ELSE IF HexEscapeAt(str, i)
    THEN <<16 * HexVal(str[i + 2]) + HexVal(str[i + 3])>> \o PassThrough(str, i + 4)
    ELSE <<BACKSLASH, str[i + 1]>> \o PassThrough(str, i + 2)

\* unescape was applied to escIn.
Unescaped == escPc \in {"raw8", "raw16"}

\* C25: unescape copies to its output, unchanged and in order, the backslash
\* and the following character of every escape sequence it does not know (a
\* backslash followed by anything but a backslash, 'n', 'f' or 'x' with two
\* hex digits, a backslash and 'x' without two hex digits included), a lone
\* backslash at the end of the string comes out as a backslash, and no
\* input character is dropped.
C25_UnknownEscapesKept ==
    Unescaped => escOut = PassThrough(escIn, 1)

\* The string holds a backslash and 'x' that unescape reads as the start of
\* an escape sequence and that two hex digits do not follow.
RECURSIVE BadHexFrom(_, _)
BadHexFrom(str, i) ==
    IF i >= Len(str) THEN FALSE
    ELSE IF str[i] # BACKSLASH THEN BadHexFrom(str, i + 1)
    ELSE IF str[i + 1] = Ch_x /\ ~HexEscapeAt(str, i) THEN TRUE
    ELSE BadHexFrom(str, IF HexEscapeAt(str, i) THEN i + 4 ELSE i + 2)

\* The same for strings without such a sequence.
UnknownEscapesKeptButHex ==
    (Unescaped /\ ~BadHexFrom(escIn, 1)) => escOut = PassThrough(escIn, 1)

\* The valid message elements of the document that name index i.
ValidWith(doc, i) == {j \in ValidAt(doc) : IndexOf(doc, j) = i}

\* The indices that several valid message elements of the document name.
RepeatedIn(doc) ==
    {IndexOf(doc, j) : j \in {x \in ValidAt(doc) : Cardinality(ValidWith(doc, IndexOf(doc, x))) > 1}}

\* C26: after loadXML of a document in which several valid message elements
\* carry the same index i, the placeholder stored for i is the placeholder
\* attribute of the last of them in document order, and no placeholder is
\* stored for i when that last element has no placeholder attribute.
C26_LastPlaceholderStored ==
    (LoadedDoc /\ op.doc \in MsgDocs /\ ret = 0) =>
        \A i \in RepeatedIn(op.doc) :
            IF op.doc.msgs[LastAt(op.doc, i)].placeholder.has
            THEN /\ i \in DOMAIN m_mapPlaceholder
                 /\ m_mapPlaceholder[i] = op.doc.msgs[LastAt(op.doc, i)].placeholder.val
            ELSE i \notin DOMAIN m_mapPlaceholder

\* The valid message elements that name index i and have a placeholder
\* attribute.
WithPlaceholder(doc, i) == {j \in ValidWith(doc, i) : doc.msgs[j].placeholder.has}

\* What the map holds for such an index: the placeholder of the first
\* element that has one, whatever follows.
FirstPlaceholderStored ==
    (LoadedDoc /\ op.doc \in MsgDocs /\ ret = 0) =>
        \A i \in RepeatedIn(op.doc) :
            IF WithPlaceholder(op.doc, i) = {} THEN i \notin DOMAIN m_mapPlaceholder
            ELSE /\ i \in DOMAIN m_mapPlaceholder
                 /\ \A j \in WithPlaceholder(op.doc, i) :
                       (\A x \in WithPlaceholder(op.doc, i) : j <= x)
                       => m_mapPlaceholder[i] = op.doc.msgs[j].placeholder.val

\* The index values the valid message elements of the document name.
AcceptedIndices(doc) == {doc.msgs[j].index.val : j \in ValidAt(doc)}

\* The entries are those of the accepted messages, each at its index, the
\* count is the largest index plus 1, and the other entries are empty.
DenseEntries(doc) ==
    /\ \A u \in AcceptedIndices(doc) :
          /\ U32Nat(u) < Len(m_vStrTbl)
          /\ m_vStrTbl[U32Nat(u) + 1].first = doc.msgs[LastAt(doc, U32Nat(u))].name.val
    /\ Len(m_vStrTbl) = Max({U32Nat(u) : u \in AcceptedIndices(doc)}) + 1
    /\ \A i \in 0..(Len(m_vStrTbl) - 1) :
          U32(i) \notin AcceptedIndices(doc)
          => m_vStrTbl[i + 1] = [first |-> <<>>, second |-> <<>>]

\* C27: after a successful loadXML, for every accepted index value in the
\* unsigned 32-bit range 0..2^32-1, each accepted message is stored at
\* exactly its index, the entry count is the largest accepted index plus 1,
\* and every index below the count that no accepted message named holds an
\* entry with empty name and empty text; the size computation index+1 never
\* wraps around and no entry is written outside the entries sequence.
C27_DenseIndices ==
    (LoadedDoc /\ op.doc \in IndexDocs /\ ret = 0) =>
        /\ fault = "none"
        /\ \A u \in AcceptedIndices(op.doc) : U32IsSmall(u)
        /\ DenseEntries(op.doc)

\* The same for documents whose indices are all below 2^31.
DenseSmallIndices ==
    (/\ LoadedDoc /\ op.doc \in IndexDocs /\ ret = 0
     /\ \A u \in AcceptedIndices(op.doc) : U32IsSmall(u))
    => fault = "none" /\ DenseEntries(op.doc)

\* An index of 2^32 - 1 ends in a write outside the entries sequence, an
\* index of 2^31 in a resize that throws.
LargeIndexFaults ==
    (LoadedDoc /\ op.doc \in IndexDocs /\ ret = 0) =>
        /\ (fault = "ub") =>
              \E j \in ValidAt(op.doc) : op.doc.msgs[j].index.val = <<65535, 65535>>
        /\ (fault = "alloc") =>
              \E j \in ValidAt(op.doc) : op.doc.msgs[j].index.val = <<32768, 0>>
        /\ (fault = "none") => \A u \in AcceptedIndices(op.doc) : U32IsSmall(u)

\* loadMST has read the file that saveMST wrote for the table of snap.mst.
ReloadedMST == nOps = 3 /\ op.kind = "loadMST" /\ op.reached /\ op.bytes = outMst.bytes

\* Every entry of the table has a name and a text.
NamesAndTexts(obj) ==
    /\ obj.tbl # <<>>
    /\ \A i \in 1..Len(obj.tbl) : obj.tbl[i].first # <<>> /\ obj.tbl[i].second # <<>>

\* C28: for every table T with at least one entry, all of whose entry names
\* and texts are non-empty, of version '1' and either value of the
\* big-endian flag, loadMST of the bytes a successful saveMST(T) wrote
\* succeeds and yields the table name, the entries, the placeholder map and
\* the big-endian flag of T.
C28_SaveLoadMST ==
    (ReloadedMST /\ NamesAndTexts(snap.mst.obj) /\ snap.mst.obj.version = Ch_1) =>
        /\ ret = 0
        /\ fault = "none"
        /\ m_name = snap.mst.obj.name
        /\ m_vStrTbl = snap.mst.obj.tbl
        /\ m_mapPlaceholder = snap.mst.obj.plc
        /\ m_isBigEndian = snap.mst.obj.big

\* The same for big-endian tables.
SaveLoadBigEndian ==
    (/\ ReloadedMST /\ NamesAndTexts(snap.mst.obj) /\ snap.mst.obj.version = Ch_1
     /\ snap.mst.obj.big)
    => /\ ret = 0
       /\ fault = "none"
       /\ m_name = snap.mst.obj.name
       /\ m_vStrTbl = snap.mst.obj.tbl
       /\ m_mapPlaceholder = snap.mst.obj.plc
       /\ m_isBigEndian = snap.mst.obj.big

\* What a little-endian table keeps: the flag, and the entries up to the
\* last one saved.
SaveLoadLittleEndian ==
    (/\ ReloadedMST /\ NamesAndTexts(snap.mst.obj) /\ snap.mst.obj.version = Ch_1
     /\ ~snap.mst.obj.big)
    => /\ ret = 0
       /\ m_isBigEndian = snap.mst.obj.big
       /\ Len(m_vStrTbl) >= Len(snap.mst.obj.tbl)
       /\ SubSeq(m_vStrTbl, 1, Len(snap.mst.obj.tbl)) = snap.mst.obj.tbl

\* C29: for any file contents that pass the header and size checks, loadMST
\* reads no byte outside the buffer of file_size bytes it filled from the
\* file: every 12-byte record it dereferences lies inside the buffer (also
\* when fewer than 12 bytes remain after the last whole record) and so does
\* every 16-bit text code unit it reads (also when a text offset points at
\* the last byte of the buffer).
C29_ReadsInsideBuffer ==
    RanRecordLoop => ~op.oob /\ fault = "none"

\* The record loop of loadMST dereferences a record at every multiple of 12
\* bytes from the record array up to the end of the buffer, until a record
\* with a pointer out of bounds: the positions at which it does.
RecordsRead(bytes) ==
    {k \in 0..((Len(bytes) - SIZEOF_MST_Header - SIZEOF_WTXT_Header - 1)
               \div SIZEOF_WTXT_MsgPointer) :
        \A j \in 0..(k - 1) :
            /\ SIZEOF_MST_Header + SIZEOF_WTXT_Header + SIZEOF_WTXT_MsgPointer * (j + 1)
                  <= Len(bytes)
            /\ ~RecordBad(bytes, j)}

\* One of the records read has fewer than 12 bytes in the buffer.
PartialRecordRead(bytes) ==
    \E k \in RecordsRead(bytes) :
        SIZEOF_MST_Header + SIZEOF_WTXT_Header + SIZEOF_WTXT_MsgPointer * (k + 1) > Len(bytes)

\* A read outside the buffer is one of the two: a record of which fewer than
\* 12 bytes are in the buffer, or a text code unit that begins at the last
\* byte of the buffer.
ReadsOutsideAreOfRecordOrText ==
    (RanRecordLoop /\ op.oob) =>
        \/ PartialRecordRead(op.bytes)
        \/ \E k \in RecordsRead(op.bytes) :
              /\ SIZEOF_MST_Header + SIZEOF_WTXT_Header + SIZEOF_WTXT_MsgPointer * (k + 1)
                    <= Len(op.bytes)
              /\ ~RecordBad(op.bytes, k)
              /\ \E g \in Garbage :
                    TextReadsPastEnd(op.bytes, Len(op.bytes),
                                     SIZEOF_MST_Header + U32Nat(RecordPtr(op.bytes, k, 1)),
                                     g, hostIsBigEndian)

----------------------------------------------------------------------------
(* The name index after a sequence of loads.                              *)

\* C30: after any sequence of load operations, every mapping name -> i of
\* the name index satisfies i < entry count and entries[i].name = name, so
\* a lookup of text by name never returns the text of an entry that has a
\* different name.
C30_NameIndexConsistent ==
    \A n \in DOMAIN m_vStrLkup :
        /\ m_vStrLkup[n] < Len(m_vStrTbl)
        /\ m_vStrTbl[m_vStrLkup[n] + 1].first = n

\* A load that runs to its return leaves the name index consistent.
NameIndexConsistentNoFault ==
    fault = "none" => C30_NameIndexConsistent

\* The name index is left inconsistent only by a message whose index is
\* 2^32 - 1: resize(index+1) has emptied the table, the names of the
\* earlier messages are still in the index.
NameIndexBrokenByWrap ==
    ~C30_NameIndexConsistent =>
        /\ op.kind = "loadXML"
        /\ fault = "ub"
        /\ m_vStrTbl = <<>>

\* A name found in the index is looked up to the text of its own entry.
LookupFindsOwnEntry ==
    fault = "none" =>
        \A n \in DOMAIN m_vStrLkup :
            \E i \in 1..Len(m_vStrTbl) :
                /\ m_vStrTbl[i].first = n
                /\ StrTextByName(m_vStrLkup, m_vStrTbl, n) = m_vStrTbl[i].second

====
